---------------------------- MODULE Spec2Model ----------------------------
(***************************************************************************)
(* PC-BASIC program buffer (src/pcbasic/basic/program.py): the tokenised   *)
(* bytecode stream, its line-number index and the operations that edit,    *)
(* renumber, list, load and save it.                                       *)
(*                                                                         *)
(* The bytecode stream is a sequence of bytes 0..255; stream offsets are   *)
(* 0-based as in the code, so offset p is element p+1 of the sequence.     *)
(***************************************************************************)
EXTENDS Integers, Sequences, FiniteSets, TLC

VARIABLES
    bytecode,       \* Program.bytecode: the contents of the stream
    line_numbers,   \* Program.line_numbers: line number -> stream offset
    protected,      \* Program.protected
    last_stored,    \* Program.last_stored (None before any store)
    op,             \* the last call made: its name, arguments and outcome
    out,            \* what the last call returned or wrote
    nops,           \* number of calls made so far
    parser,         \* the Parser: its fields, see ParserInit
    unreturned,     \* the jump_gosub calls not yet returned from: for each,
                    \* the position and run mode at the call and the depth
                    \* of the GOSUB stack before it
    last_loop,      \* the last loop_init call, while loop_iterate is called
                    \* at its NEXT only: start, stop, step, NEXT offset,
                    \* depth of the FOR stack before the call, loop_iterate
                    \* calls made since, the error of the loop_init call
                    \* ("ok" if none); <<>> if there is none
    reads,          \* the items of the DATA statements of the program that
                    \* was loaded, and the number of read_entry calls made
                    \* since restore(), -1 if there was none
    shell           \* WindowsShell.launch: the subprocess, its pipes, the
                    \* two reader threads, shell_output, the screen and the
                    \* position of the main loop, see ShellInit

vars == <<nops, bytecode, line_numbers, protected, last_stored, op, out,
          parser, unreturned, last_loop, reads, shell>>

-----------------------------------------------------------------------------
(* Bounds of the model *)

\* calls per behaviour
MaxOps == 4
\* lines a store_line may bring the program to
MaxLines == 3
MaxFileLines == 2
\* READ and RESTORE calls in a run
MaxReads == 5
\* operands of an expression
MaxOperands == 3
\* bytes the SHELL subprocess writes to its output streams
MaxBytes == 2

-----------------------------------------------------------------------------
(* Program constants *)

\* Program.__init__: address=0
code_start == 0
\* Program.__init__: max_list_line=65536; also the end-of-program key of erase()
max_list_line == 65536
\* the end-of-program key of line_numbers
EndKey == 65536
\* Python's None, for optional arguments and last_stored
None == 0 - 1

\* basictoken: tokens and classes used by program.py and tokenise.py
T_UINT_PROC == 13
T_UINT == 14
T_OCT == 11
T_HEX == 12
T_BYTE == 15
T_INT == 28
T_SINGLE == 29
T_DOUBLE == 31
tkGOTO == 137
tkREM == 143
tkPRINT == 145
tkERROR == 167
tkO_REM == 217
tkDATA == 132
tkGOSUB == 141
tkIF == 139
tkELSE == 161
tkWHILE == 177
tkTHEN == 205
tkO_PLUS == 233
chCR == 13
chColon == 58
chComma == 44
chQuote == 34
chSpace == 32
chTab == 9
chLF == 10
whitespace == {chSpace, chTab, chLF}

\* basictoken.plus_bytes: bytes that follow a token and belong to it
plus_bytes(c) ==
    CASE c = T_BYTE \/ c = 255 \/ c = 254 \/ c = 253 -> 1
      [] c = T_OCT \/ c = T_HEX \/ c = T_UINT_PROC \/ c = T_UINT \/ c = T_INT -> 2
      [] c = T_SINGLE -> 4
      [] c = T_DOUBLE -> 8
      [] c = 0 -> 4
      [] OTHER -> 0

-----------------------------------------------------------------------------
(* Byte strings and the StringIO stream *)

Min(a, b) == IF a < b THEN a ELSE b
Max(a, b) == IF a > b THEN a ELSE b
SetMin(S) == CHOOSE x \in S : \A y \in S : x <= y
SetMax(S) == CHOOSE x \in S : \A y \in S : x >= y

\* s[a:b] of Python, 0-based, clipped to the string
Slice(s, a, b) ==
    LET lo == Max(a, 0)
        hi == Min(b, Len(s))
    IN  IF hi <= lo THEN <<>> ELSE SubSeq(s, lo + 1, hi)

Zeros(n) == [i \in 1..n |-> 0]

\* StringIO: seek(p) then write(w); a write past the end pads with NUL
WriteAt(s, p, w) ==
    LET padded == IF p > Len(s) THEN s \o Zeros(p - Len(s)) ELSE s
    IN  Slice(padded, 0, p) \o w \o Slice(padded, p + Len(w), Len(padded))

\* StringIO: position after seek(p) then read(n); a negative n reads to the end
AfterRead(s, p, n) ==
    IF p >= Len(s) THEN p
    ELSE IF n < 0 THEN Len(s) ELSE Min(Len(s), p + n)

\* vartypes.int_to_integer_unsigned accepts -32768..65535
InUintRange(n) == n >= 0 - 32768 /\ n <= 65535

\* vartypes.integer_to_bytes(int_to_integer_unsigned(n)): two bytes, low first
U16(n) ==
    LET m == IF n < 0 THEN 65536 + n ELSE n
    IN  <<m % 256, m \div 256>>

\* vartypes.integer_to_int_unsigned(bytes_to_integer(two bytes))
FromU16(b) == b[1] + 256 * b[2]

RECURSIVE SeqSum(_)
SeqSum(s) == IF s = <<>> THEN 0 ELSE Head(s) + SeqSum(Tail(s))

-----------------------------------------------------------------------------
(* util: scanning the token stream *)

\* util.parse_line_number at position p (after the line's leading NUL):
\* -1 with the position left at p when the offset field is 00 00 or the
\* stream is too short, else the line number with the position at p + 4
parse_line_number(s, p) ==
    LET off == Slice(s, p, p + 2)
        num == Slice(s, p + 2, p + 4)
    IN  IF Len(off) < 2 \/ off = <<0, 0>> THEN [n |-> 0 - 1, p |-> p]
        ELSE IF Len(num) < 2 THEN [n |-> 0 - 1, p |-> p]
        ELSE [n |-> FromU16(num), p |-> p + 4]

\* util.skip_to(ins, findrange): the position of the first byte in
\* findrange from p on, outside string literals and REM; Len(s) when the
\* stream ends first or an end-of-program header is met
RECURSIVE skip_to(_, _, _, _, _)
skip_to(s, p, findrange, literal, rem) ==
    IF p >= Len(s) THEN Len(s)
    ELSE
        LET c == s[p + 1]
            lit == IF c = chQuote THEN ~literal ELSE IF c = 0 THEN FALSE ELSE literal
            rm == IF c = chQuote THEN rem
                  ELSE IF c = tkREM THEN TRUE
                  ELSE IF c = 0 THEN FALSE ELSE rem
        IN  IF c \in findrange /\ ~lit /\ ~rm THEN p
            ELSE IF c = 0 THEN
                LET off == Slice(s, p + 1, p + 3)
                IN  IF Len(off) < 2 \/ off = <<0, 0>> THEN Min(Len(s), p + 1 + Len(off))
                    ELSE skip_to(s, Min(Len(s), p + 5), findrange, FALSE, rm)
            ELSE IF lit \/ rm THEN skip_to(s, p + 1, findrange, lit, rm)
            ELSE skip_to(s, Min(Len(s), p + 1 + plus_bytes(c)), findrange, lit, rm)

\* util.skip_white_read on a line buffer from p: the first byte that is not
\* whitespace, -1 at the end of the buffer
RECURSIVE skip_white_read(_, _)
skip_white_read(s, p) ==
    IF p >= Len(s) THEN 0 - 1
    ELSE IF s[p + 1] \in whitespace THEN skip_white_read(s, p + 1)
    ELSE s[p + 1]

\* c in tk.end_line, with -1 for the empty read
InEndLine(c) == c = 0 \/ c = 0 - 1


-----------------------------------------------------------------------------
(* Program: the line-number index *)

\* the result of a call on the program
Result(bc, ln, prot, last, err, o) ==
    [bc |-> bc, ln |-> ln, prot |-> prot, last |-> last, err |-> err, out |-> o]

\* Program.find_pos_line_dict
find_pos_line_dict(ln, fromline, toline) ==
    LET deleteable == {num \in DOMAIN ln : num >= fromline /\ num <= toline}
        beyond == {num \in DOMAIN ln : num > toline}
        afterpos == ln[SetMin(beyond)]
        startpos == IF deleteable = {} THEN afterpos ELSE ln[SetMin(deleteable)]
    IN  [startpos |-> startpos, afterpos |-> afterpos,
         deleteable |-> deleteable, beyond |-> beyond]

\* Program.truncate, called with the stream positioned at p
truncate(bc, p, rest) ==
    LET r == IF rest = <<>> THEN <<0, 0, 0>> ELSE rest
    IN  Slice(WriteAt(bc, p, r), 0, p + Len(r))

\* a faulty variant of update_offsets: the offsets after the edit stay as
\* they were
update_offsets_unshifted(bc, p, addr, length) == [bc |-> bc, err |-> "ok"]

\* the while loop of Program.update_line_dict, with the stream positioned at
\* p (on a next-line-offset field) and addr the address of the line before:
\* the stream after the loop, and whether a rewritten offset overflowed
RECURSIVE update_offsets(_, _, _, _)
update_offsets(bc, p, addr, length) ==
    LET field == Slice(bc, p, p + 2)
    IN  IF Len(field) < 2 \/ field = <<0, 0>> THEN [bc |-> bc, err |-> "ok"]
        ELSE
            LET next_addr == FromU16(field)
            IN  IF ~InUintRange(next_addr + length) THEN [bc |-> bc, err |-> "Overflow"]
                ELSE
                    LET written == WriteAt(bc, p, U16(next_addr + length))
                        q == AfterRead(written, p + 2, next_addr - addr - 2)
                    IN  update_offsets(written, q, next_addr, length)

\* Program.update_line_dict: [bc, ln, err]
update_line_dict(bc, ln, pos, afterpos, length0, deleteable, beyond) ==
    LET length == length0 - (afterpos - pos)
        addr == (code_start + 1) + afterpos
        upd == update_offsets(bc, Max(0, afterpos + length + 1), addr, length)
    IN  IF upd.err # "ok" THEN [bc |-> upd.bc, ln |-> ln, err |-> upd.err]
        ELSE [bc |-> upd.bc,
              ln |-> [k \in (DOMAIN ln) \ deleteable |->
                        IF k \in beyond THEN ln[k] + length ELSE ln[k]],
              err |-> "ok"]

\* a line buffer as Tokeniser.tokenise_line builds it for a numbered line
LineBuf(n, body) == <<0, 192, 222>> \o U16(n) \o body

\* a faulty variant of empty: the whitespace after the number is not skipped
empty_without_skip(linebuf, p) ==
    InEndLine(IF p < Len(linebuf) THEN linebuf[p + 1] ELSE 0 - 1)

\* Program.store_line, line 141: nothing but whitespace follows the line
\* number, which ends at offset p of linebuf
empty(linebuf, p) == InEndLine(skip_white_read(linebuf, p))

\* Program.store_line
store_line(bc, ln, prot, last, linebuf) ==
    IF prot THEN Result(bc, ln, prot, last, "IFC", <<>>)
    ELSE
        LET parsed == parse_line_number(linebuf, 1)
            scanline == parsed.n
            isempty == empty(linebuf, parsed.p)
            f == find_pos_line_dict(ln, scanline, scanline)
            pos == f.startpos
        IN  IF isempty /\ f.deleteable = {}
            THEN Result(bc, ln, prot, last, "UNDEFINED_LINE_NUMBER", <<>>)
            ELSE
                LET rest == Slice(bc, f.afterpos, Len(bc))
                    length == IF isempty THEN 0 ELSE Len(linebuf)
                    addr == (code_start + 1) + pos + length
                    written == IF isempty THEN bc
                               ELSE WriteAt(bc, pos,
                                        <<0>> \o U16(addr) \o Slice(linebuf, 3, Len(linebuf)))
                    cut == truncate(written, pos + length, rest)
                    upd == update_line_dict(cut, ln, pos, f.afterpos, length,
                                            f.deleteable, f.beyond)
                IN  IF ~isempty /\ ~InUintRange(addr)
                    THEN Result(bc, ln, prot, last, "Overflow", <<>>)
                    ELSE IF upd.err # "ok"
                    THEN Result(upd.bc, upd.ln, prot, last, upd.err, <<>>)
                    ELSE Result(upd.bc,
                                IF isempty THEN upd.ln
                                ELSE [k \in (DOMAIN upd.ln) \cup {scanline} |->
                                        IF k = scanline THEN pos ELSE upd.ln[k]],
                                prot, scanline, "ok", <<>>)

\* Program.delete
delete(bc, ln, prot, last, fromline0, toline0) ==
    LET fromline == IF fromline0 # None THEN fromline0 ELSE SetMin(DOMAIN ln)
        toline == IF toline0 # None THEN toline0 ELSE 65535
        f == find_pos_line_dict(ln, fromline, toline)
    IN  IF f.deleteable = {} THEN Result(bc, ln, prot, last, "IFC", <<>>)
        ELSE
            LET rest == Slice(bc, f.afterpos, Len(bc))
                cut == truncate(bc, f.startpos, rest)
                upd == update_line_dict(cut, ln, f.startpos, f.afterpos, 0,
                                        f.deleteable, f.beyond)
            IN  Result(upd.bc, upd.ln, prot, last, upd.err, <<>>)

\* Program.get_line_number
get_line_number(ln, pos) ==
    LET at == {linum \in DOMAIN ln : ln[linum] <= pos}
    IN  IF at = {} THEN 0 - 1 ELSE SetMax(at)

\* util.backskip_white from position p: the position of the nearest byte
\* before p that is not whitespace (-1 when there is none)
RECURSIVE backskip_white(_, _)
backskip_white(s, p) ==
    IF p <= 0 THEN 0 - 1
    ELSE IF s[p] \in whitespace THEN backskip_white(s, p - 1)
    ELSE p - 1

\* a faulty variant of IsErrorGoto: no jump number is excepted
IsErrorGoto_never(s, p) == FALSE

\* Program.renum, lines 256-263: the jump number 0 at token position p is
\* the 0 of ERROR GOTO 0
IsErrorGoto(s, p) ==
    LET g == backskip_white(s, p)
        e == IF g < 0 THEN 0 - 1 ELSE backskip_white(s, g)
    IN  /\ g >= 0 /\ s[g + 1] = tkGOTO
        /\ e >= 0 /\ s[e + 1] = tkERROR

\* Program.renum, line 268: a jump number that was not renumbered is not a
\* line of the program either
undefined_jump(ln, jumpnum) == jumpnum \notin DOMAIN ln

\* Program.renum, lines 249-273: rewrite the jump numbers from position p
\* on; ln is the index before renumbering. [bc, notices, err]
RECURSIVE renum_jumps(_, _, _, _, _)
renum_jumps(bc, p, ln, old_to_new, notices) ==
    LET t == skip_to(bc, p, {T_UINT}, FALSE, FALSE)
    IN  IF t >= Len(bc) \/ bc[t + 1] # T_UINT
        THEN [bc |-> bc, notices |-> notices, err |-> "ok"]
        ELSE IF t + 3 > Len(bc)
        THEN [bc |-> bc, notices |-> notices, err |-> "IndexError"]
        ELSE
            LET jumpnum == FromU16(Slice(bc, t + 1, t + 3))
            IN  IF jumpnum = 0 /\ IsErrorGoto(bc, t)
                THEN renum_jumps(bc, t + 3, ln, old_to_new, notices)
                ELSE IF jumpnum \in DOMAIN old_to_new
                THEN renum_jumps(WriteAt(bc, t + 1, U16(old_to_new[jumpnum])),
                                 t + 3, ln, old_to_new, notices)
                ELSE renum_jumps(bc, t + 3, ln, old_to_new,
                        IF undefined_jump(ln, jumpnum)
                        THEN Append(notices, <<jumpnum, get_line_number(ln, t + 2)>>)
                        ELSE notices)

\* the orders in which a dict of the keys S may be iterated
Orders(S) ==
    {f \in [1..Cardinality(S) -> S] : \A i, j \in 1..Cardinality(S) : f[i] = f[j] => i = j}

\* Program.renum, lines 244-248: overwrite the line numbers in the headers,
\* in the order given; stops at a number that does not fit two bytes
RECURSIVE renum_headers(_, _, _, _, _)
renum_headers(bc, ln, old_to_new, order, i) ==
    IF i > Len(order) THEN [bc |-> bc, err |-> "ok"]
    ELSE IF ~InUintRange(old_to_new[order[i]]) THEN [bc |-> bc, err |-> "Overflow"]
    ELSE renum_headers(
            WriteAt(bc, AfterRead(bc, ln[order[i]], 3), U16(old_to_new[order[i]])),
            ln, old_to_new, order, i + 1)

\* the ascending sequence of the elements of S
RECURSIVE Sorted(_)
Sorted(S) == IF S = {} THEN <<>> ELSE <<SetMin(S)>> \o Sorted(S \ {SetMin(S)})

\* Program.renum, lines 228-242: the new numbers. keys are the old numbers
\* from start_line on, ascending; the first one below 65535 whose new number
\* exceeds 65529 raises
renum_assign(ln, new_line, start_line, step) ==
    LET keys == Sorted({k \in DOMAIN ln : k >= start_line /\ k # EndKey})
        newOf(i) == new_line + (i - 1) * step
        bad == {i \in 1..Len(keys) : keys[i] < 65535 /\ newOf(i) > 65529}
        \* the end key 65536 is compared like the others before the loop ends
        n == IF bad = {} THEN Len(keys) ELSE SetMin(bad) - 1
    IN  [err |-> IF bad = {} THEN "ok" ELSE "IFC",
         assigned |-> n,
         last |-> newOf(n),
         old_to_new |-> [k \in {keys[i] : i \in 1..n} |->
                            newOf(CHOOSE i \in 1..n : keys[i] = k)]]

\* Program.renum, for one iteration order of old_to_new
renum_in_order(bc, ln, prot, last, a, order) ==
    LET last1 == IF a.assigned > 0 THEN a.last ELSE last
        h == renum_headers(bc, ln, a.old_to_new, order, 1)
        j == renum_jumps(h.bc, 0, ln, a.old_to_new, <<>>)
        o == [notices |-> j.notices, old_to_new |-> a.old_to_new]
        moved == {a.old_to_new[k] : k \in DOMAIN a.old_to_new}
        kept == (DOMAIN ln) \ (DOMAIN a.old_to_new)
        newln == [k \in kept \cup moved |->
                    IF k \in moved
                    THEN ln[CHOOSE old \in DOMAIN a.old_to_new : a.old_to_new[old] = k]
                    ELSE ln[k]]
    IN  IF h.err # "ok" THEN Result(h.bc, ln, prot, last1, h.err, <<>>)
        ELSE IF j.err # "ok" THEN Result(j.bc, ln, prot, last1, j.err, o)
        ELSE Result(j.bc, newln, prot, last1, "ok", o)

\* Program.renum: the outcomes over the iteration orders of old_to_new
renum(bc, ln, prot, last, new0, start0, step0) ==
    LET new_line == IF new0 = None THEN 10 ELSE new0
        start_line == IF start0 = None THEN 0 ELSE start0
        step == IF step0 = None THEN 10 ELSE step0
        a == renum_assign(ln, new_line, start_line, step)
    IN  IF a.err # "ok"
        THEN {Result(bc, ln, prot, IF a.assigned > 0 THEN a.last ELSE last, a.err, <<>>)}
        ELSE {renum_in_order(bc, ln, prot, last, a, order) :
                order \in Orders(DOMAIN a.old_to_new)}

\* Program.erase
erase ==
    Result(<<0, 0, 0>>, (EndKey :> 0), FALSE, None, "ok", <<>>)

-----------------------------------------------------------------------------
(* Tokeniser: detokenising a stored line *)

chDigits == 48..57
chLetters == (65..90) \cup (97..122)

\* str(n) for n >= 0, as character codes
RECURSIVE Str(_)
Str(n) == IF n < 10 THEN <<48 + n>> ELSE Str(n \div 10) \o <<48 + (n % 10)>>

\* basictoken.keyword, restricted to the tokens the modelled lines hold:
\* DATA, GOTO, GOSUB, IF, REM, PRINT, ELSE, ERROR, WHILE, THEN, the ' of a
\* comment and the operators; <<>> for any other byte
Keyword(c) ==
    CASE c = tkDATA -> <<68, 65, 84, 65>>
      [] c = tkGOTO -> <<71, 79, 84, 79>>
      [] c = tkGOSUB -> <<71, 79, 83, 85, 66>>
      [] c = tkIF -> <<73, 70>>
      [] c = tkREM -> <<82, 69, 77>>
      [] c = tkPRINT -> <<80, 82, 73, 78, 84>>
      [] c = tkELSE -> <<69, 76, 83, 69>>
      [] c = tkERROR -> <<69, 82, 82, 79, 82>>
      [] c = tkWHILE -> <<87, 72, 73, 76, 69>>
      [] c = tkTHEN -> <<84, 72, 69, 78>>
      [] c = tkO_REM -> <<39>>
      [] c = 230 -> <<62>>
      [] c = 231 -> <<61>>
      [] c = 232 -> <<60>>
      [] c = tkO_PLUS -> <<43>>
      [] c = 234 -> <<45>>
      [] c = 235 -> <<42>>
      [] c = 236 -> <<47>>
      [] c = 237 -> <<94>>
      [] c = 244 -> <<92>>
      [] OTHER -> <<>>

\* the tokens of the restricted keyword table
KeywordTokens ==
    {tkDATA, tkGOTO, tkGOSUB, tkIF, tkREM, tkPRINT, tkELSE, tkERROR, tkWHILE, tkTHEN, tkO_REM}
        \cup (230..237) \cup {244}

\* basictoken.operator; basictoken.with_bracket and USR, FN
tkOperator == (230..237) \cup {244}
tkNoSpaceAfter == tkOperator \cup {206, 210, 208, 209}
\* the characters after which _detokenise_keyword adds no space
NoSpaceBefore ==
    {0} \cup tkOperator \cup {tkO_REM, 34, 44, 32, 58, 40, 41, 36, 37, 33, 35, 95, 64, 126, 124, 96}

EndsWith(o, t) == Len(o) >= Len(t) /\ SubSeq(o, Len(o) - Len(t) + 1, Len(o)) = t
DropLast(o, n) == SubSeq(o, 1, Len(o) - n)

\* Tokeniser._detokenise_keyword, lines 163-179: the special cases
\* :REM' -> ', WHILE+ -> WHILE, :ELSE -> ELSE
KeywordSpecialCases(o) ==
    IF Len(o) > 4 /\ EndsWith(o, <<58, 82, 69, 77, 39>>) THEN DropLast(o, 5) \o <<39>>
    ELSE IF Len(o) > 5 /\ EndsWith(o, <<87, 72, 73, 76, 69, 43>>) THEN DropLast(o, 1)
    ELSE IF Len(o) > 4 /\ EndsWith(o, <<69, 76, 83, 69>>)
         THEN IF Len(o) > 5 /\ o[Len(o) - 4] = 58 /\ o[Len(o) - 5] \in chDigits
              THEN DropLast(o, 5) \o <<32, 69, 76, 83, 69>>
              ELSE DropLast(o, 5) \o <<69, 76, 83, 69>>
    ELSE o

\* Tokeniser._detokenise_keyword with the stream at p, on a byte that is
\* neither printable nor a number: [output, p, comment]
detokenise_keyword(s, p, output) ==
    LET c == s[p + 1]
        keyword == Keyword(c)
    IN  IF keyword = <<>> THEN [output |-> Append(output, c), p |-> p + 1, comment |-> FALSE]
        ELSE
            LET o1 == IF output # <<>> /\ output[Len(output)] \in (chDigits \cup chLetters)
                         /\ c \notin tkOperator
                      THEN Append(output, 32) ELSE output
                o2 == o1 \o keyword
                isRem == keyword = <<82, 69, 77>>
                remQuote == isRem /\ p + 1 < Len(s) /\ s[p + 2] = tkO_REM
                p2 == IF remQuote THEN p + 2 ELSE p + 1
                comment == isRem \/ keyword = <<39>>
                o3 == KeywordSpecialCases(IF remQuote THEN Append(o2, 39) ELSE o2)
                nxt == IF p2 < Len(s) THEN s[p2 + 1] ELSE 0
                o4 == IF ~comment /\ nxt \notin NoSpaceBefore /\ c \notin tkNoSpaceAfter
                      THEN Append(o3, 32) ELSE o3
            IN  [output |-> o4, p |-> p2, comment |-> comment]

\* Tokeniser.detokenise_compound_statement: [text, p]. The number constants
\* rendered are the one-byte constants 0..10, the byte constant and the
\* integer constant up to 32767; the modelled lines hold no other number token
RECURSIVE detokenise_compound_statement(_, _, _, _, _)
detokenise_compound_statement(s, p, output, litstring, comment) ==
    IF p >= Len(s) THEN [text |-> output, p |-> p]
    ELSE
        LET c == s[p + 1]
        IN  IF c = 0 THEN [text |-> output, p |-> p + 1]
            ELSE IF c = chQuote
            THEN detokenise_compound_statement(s, p + 1, Append(output, c), ~litstring, comment)
            ELSE IF c \in 17..27
            THEN detokenise_compound_statement(s, p + 1, output \o Str(c - 17), litstring, comment)
            ELSE IF c = T_BYTE /\ p + 1 < Len(s)
            THEN detokenise_compound_statement(s, p + 2, output \o Str(s[p + 2]), litstring, comment)
            ELSE IF c = T_INT /\ p + 2 < Len(s)
            THEN detokenise_compound_statement(s, p + 3,
                    output \o Str(FromU16(Slice(s, p + 1, p + 3))), litstring, comment)
            ELSE IF c \in {T_UINT_PROC, T_UINT} /\ p + 2 < Len(s)
            THEN detokenise_compound_statement(s, p + 3,
                    output \o Str(FromU16(Slice(s, p + 1, p + 3))), litstring, comment)
            ELSE IF comment \/ litstring \/ (c >= 32 /\ c <= 126)
            THEN detokenise_compound_statement(s, p + 1, Append(output, c), litstring, comment)
            ELSE IF c = chLF
            THEN detokenise_compound_statement(s, p + 1, output \o <<10, 13>>, litstring, comment)
            ELSE IF c <= 9
            THEN detokenise_compound_statement(s, p + 1, Append(output, c), litstring, comment)
            ELSE
                LET k == detokenise_keyword(s, p, output)
                IN  detokenise_compound_statement(s, k.p, k.output, litstring, k.comment)

\* Tokeniser.detokenise_line with the stream at p, after the leading NUL of
\* a line: [line, text, p]; line is -1 at the end of the program
detokenise_line(s, p) ==
    LET h == parse_line_number(s, p)
    IN  IF h.n < 0 THEN [line |-> 0 - 1, text |-> <<>>, p |-> h.p]
        ELSE
            LET p1 == IF h.n = 0 /\ h.p < Len(s) /\ s[h.p + 1] = chSpace THEN h.p + 1 ELSE h.p
                linum == IF p1 < Len(s) /\ s[p1 + 1] = chTab
                         THEN Str(h.n) ELSE Append(Str(h.n), 32)
                d == detokenise_compound_statement(s, p1, <<>>, FALSE, FALSE)
            IN  [line |-> h.n, text |-> linum \o d.text, p |-> d.p]

-----------------------------------------------------------------------------
(* Tokeniser: tokenising a text line *)

\* basictoken.name_chars
name_chars == chLetters \cup chDigits \cup {46}
\* Tokeniser._ascii_operators
ascii_operators == {43, 45, 61, 47, 92, 94, 42, 60, 62}
\* a keyword table in which GOSUB is no line-number word
linenum_words_without_gosub == {Keyword(tkGOTO), Keyword(tkTHEN), Keyword(tkELSE)}
\* Tokeniser._linenum_words, within the restricted keyword table
linenum_words == {Keyword(tkGOTO), Keyword(tkTHEN), Keyword(tkELSE), Keyword(tkGOSUB)}

Upper(c) == IF c \in 97..122 THEN c - 32 ELSE c
UpperSeq(w) == [i \in 1..Len(w) |-> Upper(w[i])]

\* util.peek: the byte at offset p, -1 at the end of the stream
Peek(s, p) == IF p < Len(s) THEN s[p + 1] ELSE 0 - 1

\* Tokeniser._keyword_to_token: the token of a word, <<>> if it is no keyword
keyword_to_token(word) ==
    IF \E t \in KeywordTokens : Keyword(t) = word
    THEN <<CHOOSE t \in KeywordTokens : Keyword(t) = word>>
    ELSE <<>>

\* ascii_read_to: the offset of the first byte in findrange from p on, or
\* the end of the stream
RECURSIVE ascii_read_to(_, _, _)
ascii_read_to(s, p, findrange) ==
    IF p >= Len(s) \/ s[p + 1] \in findrange THEN p
    ELSE ascii_read_to(s, p + 1, findrange)

\* util.skip(ins, whitespace): the offset of the first byte not in skiprange
RECURSIVE skip(_, _, _)
skip(s, p, skiprange) ==
    IF p < Len(s) /\ s[p + 1] \in skiprange THEN skip(s, p + 1, skiprange) ELSE p

\* the offset after the last digit of the run of digits and whitespace that
\* starts at p; p if the run holds no digit
RECURSIVE DigitRunEnd(_, _, _)
DigitRunEnd(s, p, last) ==
    IF p < Len(s) /\ s[p + 1] \in chDigits THEN DigitRunEnd(s, p + 1, p + 1)
    ELSE IF p < Len(s) /\ s[p + 1] \in whitespace THEN DigitRunEnd(s, p + 1, last)
    ELSE last

\* int(word) for a sequence of digits
RECURSIVE IntOf(_)
IntOf(w) == IF w = <<>> THEN 0 ELSE 10 * IntOf(SubSeq(w, 1, Len(w) - 1)) + (w[Len(w)] - 48)

IsDigit(c) == c \in chDigits

\* Tokeniser._tokenise_uint: [word, p], word the two bytes of the number or
\* <<>> when no digit is read
tokenise_uint(s, p) ==
    LET e == DigitRunEnd(s, p, p)
        word == SelectSeq(Slice(s, p, e), IsDigit)
    IN  IF word = <<>> THEN [word |-> <<>>, p |-> e]
        ELSE IF IntOf(word) >= 65530
        THEN [word |-> U16(IntOf(SubSeq(word, 1, 4))), p |-> e + 4 - Len(word)]
        ELSE [word |-> U16(IntOf(word)), p |-> e]

\* Tokeniser._tokenise_line_number: [outs, p]
tokenise_line_number(s, p) ==
    LET u == tokenise_uint(s, p)
    IN  IF u.word # <<>>
        THEN [outs |-> <<0, 192, 222>> \o u.word,
              p |-> IF Peek(s, u.p) = chSpace /\ u.word # <<0, 0>> THEN u.p + 1 ELSE u.p]
        ELSE [outs |-> <<chColon>>, p |-> u.p]

\* Tokeniser._tokenise_literal: the offset after the string literal at p
tokenise_literal(s, p) ==
    LET q == ascii_read_to(s, p + 1, {chCR, 0, chQuote})
    IN  IF Peek(s, q) = chQuote THEN q + 1 ELSE q

\* Tokeniser._tokenise_jump_number: [outs, p]
tokenise_jump_number(s, p) ==
    LET u == tokenise_uint(s, p)
    IN  IF u.word # <<>> THEN [outs |-> <<T_UINT>> \o u.word, p |-> u.p]
        ELSE IF Peek(s, u.p) = 46 THEN [outs |-> <<46>>, p |-> u.p + 1]
        ELSE [outs |-> <<>>, p |-> u.p]

\* representation.tokenise_number for a decimal integer without sign, point,
\* exponent or type character: [outs, p]
tokenise_number(s, p) ==
    LET e == DigitRunEnd(s, p, p)
        word == SelectSeq(Slice(s, p, e), IsDigit)
        n == IntOf(word)
    IN  IF word = <<>> THEN [outs |-> <<Peek(s, p)>>, p |-> p + 1]
        ELSE IF Len(word) = 1 THEN [outs |-> <<17 + n>>, p |-> e]
        ELSE IF n <= 255 THEN [outs |-> <<T_BYTE, n>>, p |-> e]
        ELSE IF n <= 32767 THEN [outs |-> <<T_INT>> \o U16(n), p |-> e]
        ELSE [outs |-> <<T_SINGLE, 0, 0, 0, 0>>, p |-> e]

\* Tokeniser._tokenise_word with the stream at p and the word read so far:
\* [word, outs, p]. The words FN, SPC(, TAB( and USR, which are tokenised
\* inside a longer name, are not in the restricted keyword table
RECURSIVE tokenise_word(_, _, _)
tokenise_word(s, p, word0) ==
    LET c == Peek(s, p)
        p1 == Min(p + 1, Len(s))
        w1 == IF c = 0 - 1 THEN word0 ELSE Append(word0, Upper(c))
        go == w1 = <<71, 79>>
        isGosub == UpperSeq(Slice(s, p1, p1 + 4)) = <<32, 83, 85, 66>>
        q == skip(s, p1, whitespace)
        isGoto == ~isGosub /\ UpperSeq(Slice(s, q, q + 2)) = <<84, 79>>
        wGo == IF go /\ isGosub THEN Keyword(tkGOSUB)
               ELSE IF go /\ isGoto THEN Keyword(tkGOTO) ELSE w1
        pGo == IF go /\ isGosub THEN p1 + 4 ELSE IF go /\ isGoto THEN q + 2 ELSE p1
        revert == go /\ wGo # w1 /\ Peek(s, pGo) \in name_chars
        word == IF revert THEN w1 ELSE wGo
        p2 == IF revert THEN p1 ELSE pGo
        token == keyword_to_token(word)
    IN  IF token # <<>> /\ Peek(s, p2) \notin name_chars
        THEN [word |-> word, p |-> p2,
              outs |-> IF word = Keyword(tkELSE) THEN <<chColon>> \o token
                       ELSE IF word = Keyword(tkWHILE) THEN token \o <<tkO_PLUS>>
                       ELSE token]
        ELSE IF token # <<>> THEN tokenise_word(s, p2, word)
        ELSE IF c = 0 - 1 THEN [word |-> word, p |-> p2, outs |-> word]
        ELSE IF c \notin name_chars
        THEN [word |-> DropLast(word, 1), p |-> p2 - 1, outs |-> DropLast(word, 1)]
        ELSE tokenise_word(s, p2, word)

\* Tokeniser._tokenise_data: the offset where the DATA statement at p ends
RECURSIVE tokenise_data(_, _)
tokenise_data(s, p) ==
    LET q == ascii_read_to(s, p, {chCR, 0, chColon, chQuote})
    IN  IF Peek(s, q) = chQuote THEN tokenise_data(s, tokenise_literal(s, q)) ELSE q

\* Tokeniser.tokenise_line, lines 213-290: the elements of the line from p on
RECURSIVE tokenise_elements(_, _, _, _, _, _)
tokenise_elements(s, p, outs, allow_jumpnum, allow_number, spc_or_tab) ==
    LET c == Peek(s, p)
    IN  IF c \in {0, 0 - 1, chCR} THEN outs
        ELSE IF c \in whitespace
        THEN tokenise_elements(s, p + 1, Append(outs, c),
                               allow_jumpnum, allow_number, spc_or_tab)
        ELSE IF c = chQuote
        THEN LET q == tokenise_literal(s, p)
             IN  tokenise_elements(s, q, outs \o Slice(s, p, q),
                                   allow_jumpnum, allow_number, spc_or_tab)
        ELSE IF allow_number /\ allow_jumpnum /\ c \in chDigits \cup {46}
        THEN LET j == tokenise_jump_number(s, p)
             IN  tokenise_elements(s, j.p, outs \o j.outs,
                                   allow_jumpnum, allow_number, spc_or_tab)
        ELSE IF c \in {38, 46} \/ (allow_number /\ ~allow_jumpnum /\ c \in chDigits)
        THEN LET n == tokenise_number(s, p)
             IN  tokenise_elements(s, n.p, outs \o n.outs,
                                   allow_jumpnum, allow_number, spc_or_tab)
        ELSE IF c \in ascii_operators
        THEN tokenise_elements(s, p + 1, outs \o keyword_to_token(<<c>>),
                               allow_jumpnum, TRUE, spc_or_tab)
        ELSE IF c = 39
        THEN LET q == ascii_read_to(s, p + 1, {chCR, 0})
             IN  tokenise_elements(s, q,
                        outs \o <<chColon, tkREM, tkO_REM>> \o Slice(s, p + 1, q),
                        allow_jumpnum, allow_number, spc_or_tab)
        ELSE IF c = 63
        THEN tokenise_elements(s, p + 1, Append(outs, tkPRINT),
                               allow_jumpnum, TRUE, spc_or_tab)
        ELSE IF c \in chLetters
        THEN LET w == tokenise_word(s, p, <<>>)
             IN  IF w.word \in {Keyword(tkREM), <<39>>}
                 THEN LET q == ascii_read_to(s, w.p, {chCR, 0})
                      IN  tokenise_elements(s, q, outs \o w.outs \o Slice(s, w.p, q),
                                            allow_jumpnum, allow_number, spc_or_tab)
                 ELSE IF w.word = Keyword(tkDATA)
                 THEN LET q == tokenise_data(s, w.p)
                      IN  tokenise_elements(s, q, outs \o w.outs \o Slice(s, w.p, q),
                                            allow_jumpnum, allow_number, spc_or_tab)
                 ELSE tokenise_elements(s, w.p, outs \o w.outs,
                                        w.word \in linenum_words,
                                        keyword_to_token(w.word) # <<>>, spc_or_tab)
        ELSE
            LET o == Append(outs, IF c >= 32 /\ c <= 127 THEN c ELSE chSpace)
            IN  IF c \in {44, 35, 59}
                THEN tokenise_elements(s, p + 1, o, allow_jumpnum, TRUE, spc_or_tab)
                ELSE IF c \in {40, 91}
                THEN tokenise_elements(s, p + 1, o, FALSE, TRUE, spc_or_tab)
                ELSE IF c = 41 /\ spc_or_tab
                THEN tokenise_elements(s, p + 1, o, FALSE, TRUE, FALSE)
                ELSE tokenise_elements(s, p + 1, o, FALSE, FALSE, spc_or_tab)

\* Tokeniser.tokenise_line: the tokenised line buffer of a text line
tokenise_line(line) ==
    LET d == skip(line, 0, whitespace)
    IN  IF d >= Len(line) THEN <<>>
        ELSE LET h == tokenise_line_number(line, d)
             IN  tokenise_elements(line, h.p, h.outs, FALSE, TRUE, FALSE)

-----------------------------------------------------------------------------
(* Program: listing, loading and saving *)

\* Program.__init__: allow_protect, here set so that a protected file
\* protects the program
allow_protect == TRUE

\* sorted([line_numbers[num] for num in keys]): the offsets, ascending
RECURSIVE SortedOffsets(_, _)
SortedOffsets(ln, keys) ==
    IF keys = {} THEN <<>>
    ELSE LET k == CHOOSE k \in keys : \A j \in keys : ln[k] <= ln[j]
         IN  <<ln[k]>> \o SortedOffsets(ln, keys \ {k})

\* Program.list_lines
list_lines(bc, ln, prot, last, from_line, to_line0) ==
    IF prot THEN Result(bc, ln, prot, last, "IFC", <<>>)
    ELSE
        LET to_line == IF to_line0 = None THEN max_list_line ELSE to_line0
            listable == SortedOffsets(ln,
                            {num \in DOMAIN ln : num >= from_line /\ num <= to_line})
        IN  Result(bc, ln, prot, last, "ok",
                   [i \in 1..Len(listable) |-> detokenise_line(bc, listable[i] + 1).text])

\* Program.edit: the line written to the console
edit(bc, ln, prot, last, from_line) ==
    IF prot THEN Result(bc, ln, prot, last, "IFC", <<Append(Str(from_line), 13)>>)
    ELSE IF from_line \notin DOMAIN ln THEN Result(bc, ln, prot, last, "KeyError", <<>>)
    ELSE Result(bc, ln, prot, last, "ok", <<detokenise_line(bc, ln[from_line] + 1).text>>)

\* protect.protect and protect.unprotect: a reversible transform of the bytes
ProtectKey(i) == 11 - (i % 11)
protect_bytes(s) == [i \in 1..Len(s) |-> (s[i] + ProtectKey(i)) % 256]
unprotect_bytes(s) == [i \in 1..Len(s) |-> (s[i] + 256 - ProtectKey(i)) % 256]

\* the first loop of Program.rebuild_line_dict, at the start of a line:
\* [ln, offsets, scanpos]
RECURSIVE rebuild_scan(_, _, _, _)
rebuild_scan(bc, scanpos, ln, offsets) ==
    LET h == parse_line_number(bc, Min(Len(bc), scanpos + 1))
    IN  IF h.n < 0 THEN [ln |-> ln, offsets |-> offsets, scanpos |-> scanpos]
        ELSE
            LET e == skip_to(bc, h.p, {0}, FALSE, FALSE)
            IN  rebuild_scan(bc, e,
                    [k \in (DOMAIN ln) \cup {h.n} |-> IF k = h.n THEN scanpos ELSE ln[k]],
                    Append(offsets, e))

\* the second loop of Program.rebuild_line_dict: rewrite the offset fields;
\* p is the position of the stream
RECURSIVE rebuild_offsets(_, _, _, _)
rebuild_offsets(bc, p, offsets, i) ==
    IF i > Len(offsets)
    THEN [bc |-> WriteAt(bc, p, <<0, 0, 0>>), err |-> "ok", p |-> p + 3]
    ELSE IF ~InUintRange((code_start + 1) + offsets[i])
    THEN [bc |-> bc, err |-> "Overflow", p |-> AfterRead(bc, p, 1)]
    ELSE
        LET p1 == AfterRead(bc, p, 1)
            written == WriteAt(bc, p1, U16((code_start + 1) + offsets[i]))
            last == IF i = 1 THEN 0 ELSE offsets[i - 1]
        IN  rebuild_offsets(written, AfterRead(written, p1 + 2, offsets[i] - last - 3),
                            offsets, i + 1)

\* Program.rebuild_line_dict: [bc, ln, err, pos], pos the position at which
\* it leaves the stream
rebuild_line_dict(bc) ==
    LET scan == rebuild_scan(bc, 0, <<>>, <<>>)
        ln == [k \in (DOMAIN scan.ln) \cup {EndKey} |->
                 IF k = EndKey THEN scan.scanpos ELSE scan.ln[k]]
        w == rebuild_offsets(bc, 0, scan.offsets, 1)
    IN  [bc |-> w.bc, ln |-> ln, err |-> w.err, pos |-> w.p]

\* a faulty variant of set_memory: the index is not rebuilt after the write
set_memory_without_rebuild(bc, ln, prot, last, allow_code_poke, address, val) ==
    Result(IF allow_code_poke THEN WriteAt(bc, address - code_start, <<val>>) ELSE bc,
           ln, prot, last, "ok", <<>>)

\* Program.set_memory: the byte is written at address - code_start, after
\* padding with zeros when that lies beyond the end of the stream, and the
\* index is rebuilt; nothing happens unless allow_code_poke is set
set_memory(bc, ln, prot, last, allow_code_poke, address, val) ==
    IF ~allow_code_poke THEN Result(bc, ln, prot, last, "ok", <<>>)
    ELSE
        LET offset == address - code_start
            written == IF offset > Len(bc) THEN bc \o Zeros(offset - Len(bc)) \o <<val>>
                       ELSE WriteAt(bc, offset, <<val>>)
            r == rebuild_line_dict(written)
        IN  Result(r.bc, r.ln, prot, last, r.err, <<>>)

\* Program.set_memory: the position of the bytecode stream after the call,
\* loc being its position before; line 388 seeks back to loc and line 389
\* rebuilds the index on the same stream
set_memory_tell(bc, allow_code_poke, address, val, loc) ==
    IF ~allow_code_poke THEN loc
    ELSE rebuild_line_dict(IF address - code_start > Len(bc)
                           THEN bc \o Zeros(address - code_start - Len(bc)) \o <<val>>
                           ELSE WriteAt(bc, address - code_start, <<val>>)).pos

\* a faulty variant of load: the file is written from offset 0, not 1
load_from_offset_0(filetype, content) ==
    LET e == erase
        raw == IF filetype = "B" THEN WriteAt(e.bc, 0, content)
               ELSE IF filetype = "P" THEN WriteAt(e.bc, 0, unprotect_bytes(content))
               ELSE e.bc
        prot == IF filetype = "P" THEN allow_protect ELSE e.prot
        r == rebuild_line_dict(raw)
    IN  Result(r.bc, r.ln, prot, e.last, r.err, <<>>)

\* Program.merge, lines 309-317: one tokenised line is stored if it starts
\* with a line number; otherwise anything but whitespace in it is an error
merge_line(bc, ln, prot, last, linebuf) ==
    IF Len(linebuf) > 0 /\ linebuf[1] = 0
    THEN store_line(bc, ln, prot, last, linebuf)
    ELSE IF ~InEndLine(skip_white_read(linebuf, 1))
    THEN Result(bc, ln, prot, last, "DIRECT_STATEMENT_IN_FILE", <<>>)
    ELSE Result(bc, ln, prot, last, "ok", <<>>)

\* Program.merge: the text lines of the file are tokenised and stored one
\* by one; the first error ends the merge
RECURSIVE merge(_, _, _, _, _)
merge_rest(r, lines) ==
    IF r.err # "ok" THEN r ELSE merge(r.bc, r.ln, r.prot, r.last, lines)

merge(bc, ln, prot, last, lines) ==
    IF lines = <<>> THEN Result(bc, ln, prot, last, "ok", <<>>)
    ELSE merge_rest(merge_line(bc, ln, prot, last, tokenise_line(Head(lines))),
                    Tail(lines))

\* Program.load: content is the bytes of a bytecode or protected file, the
\* lines of a plain-text file
load(filetype, content) ==
    LET e == erase
        raw == IF filetype = "B" THEN WriteAt(e.bc, 1, content)
               ELSE IF filetype = "P" THEN WriteAt(e.bc, 1, unprotect_bytes(content))
               ELSE e.bc
        prot == IF filetype = "P" THEN allow_protect ELSE e.prot
        r == rebuild_line_dict(raw)
    IN  IF filetype = "A" THEN merge(e.bc, e.ln, e.prot, e.last, content)
        ELSE Result(r.bc, r.ln, prot, e.last, r.err, <<>>)

\* Program.save, ascii mode: the lines written, from position p
RECURSIVE save_ascii(_, _, _)
save_ascii(bc, p, lines) ==
    LET d == detokenise_line(bc, p)
    IN  IF d.line = 0 - 1 \/ d.line > max_list_line THEN lines
        ELSE save_ascii(bc, d.p, Append(lines, d.text))

\* a faulty variant of save_refused: only the text format is refused
save_refused_text_only(prot, mode) == prot /\ mode = "A"

\* Program.save, line 322: a protected program is saved protected only
save_refused(prot, mode) == prot /\ mode # "P"

\* Program.save: out is what is written to the file
save(bc, ln, prot, last, mode) ==
    IF save_refused(prot, mode) THEN Result(bc, ln, prot, last, "IFC", <<>>)
    ELSE Result(bc, ln, prot, last, "ok",
                IF mode = "B" THEN Slice(bc, 1, Len(bc))
                ELSE IF mode = "P" THEN protect_bytes(Slice(bc, 1, Len(bc)))
                ELSE save_ascii(bc, 1, <<>>))

-----------------------------------------------------------------------------
(* The lines physically present in a stream *)

\* the lines met when the stream is read from offset p as rebuild_line_dict
\* and detokenise_line read it: the start offset, number and body of each
RECURSIVE LinesFrom(_, _)
LinesFrom(s, p) ==
    LET h == parse_line_number(s, p + 1)
    IN  IF p >= Len(s) \/ s[p + 1] # 0 \/ h.n < 0 THEN <<>>
        ELSE
            LET e == skip_to(s, h.p, {0}, FALSE, FALSE)
            IN  <<[pos |-> p, num |-> h.n, body |-> Slice(s, h.p, e)]>>
                    \o LinesFrom(s, e)

Lines(s) == LinesFrom(s, 0)

\* the offset at which the lines of the stream end (its end-of-program header)
EndOfLines(s) ==
    LET L == Lines(s)
    IN  IF L = <<>> THEN 0 ELSE L[Len(L)].pos + 5 + Len(L[Len(L)].body)

-----------------------------------------------------------------------------
(* Parser (src/pcbasic/basic/parser.py): pointer, jumps and stacks *)

\* the events of session.events.all, in list order
Events == 1..2

\* Parser.init_error_trapping
init_error_trapping(ps) ==
    [ps EXCEPT !.error_handle_mode = FALSE, !.error_resume = <<>>, !.on_error = None]

\* Parser.__init__: the parser of a new session. program_pos and direct_pos
\* are the positions of program_code and session.direct_line; error_resume
\* is <<>> for None; an event is a record of its flags and handler line
ParserInit ==
    [ run_mode |-> FALSE,
      program_pos |-> 0,
      direct_line |-> <<>>,
      direct_pos |-> 0,
      current_statement |-> 0,
      gosub_stack |-> <<>>,
      for_stack |-> <<>>,
      while_stack |-> <<>>,
      data_pos |-> 0,
      error_handle_mode |-> FALSE,
      error_resume |-> <<>>,
      on_error |-> None,
      error_num |-> 0,
      error_pos |-> 0,
      events |-> [e \in Events |-> [enabled |-> FALSE, triggered |-> FALSE,
                                    stopped |-> FALSE, gosub |-> None]],
      suspend_all |-> FALSE,
      scalars |-> <<0, 0>> ]

\* the result of a Parser call: the parser after it, the error it raised
\* ("ok" if none) and the value it returned
PResult(ps, err, val) == [ps |-> ps, err |-> err, val |-> val]

\* Parser.get_codestream: the contents, and .tell() and .seek(pos) on it
get_codestream(ps, bc) == IF ps.run_mode THEN bc ELSE ps.direct_line
tell(ps) == IF ps.run_mode THEN ps.program_pos ELSE ps.direct_pos
seek(ps, pos) ==
    IF ps.run_mode THEN [ps EXCEPT !.program_pos = pos]
    ELSE [ps EXCEPT !.direct_pos = pos]

\* Parser.set_pointer(new_runmode, pos): pos None puts the pointer at the end
seek_in(ps, bc, pos) == seek(ps, IF pos # None THEN pos ELSE Len(get_codestream(ps, bc)))
set_pointer(ps, bc, new_runmode, pos) ==
    seek_in([ps EXCEPT !.run_mode = new_runmode], bc, pos)

\* Parser.jump
jump(ps, bc, ln, jumpnum, err) ==
    IF jumpnum = None THEN PResult(set_pointer(ps, bc, TRUE, 0), "ok", <<>>)
    ELSE IF jumpnum \in DOMAIN ln
    THEN PResult(set_pointer(ps, bc, TRUE, ln[jumpnum]), "ok", <<>>)
    ELSE PResult(ps, err, <<>>)

\* a faulty variant of jump_gosub: the return position is not recorded
jump_gosub_position_0(ps, bc, ln, jumpnum, handler) ==
    jump([ps EXCEPT !.gosub_stack = Append(@, <<0, ps.run_mode, handler>>)],
         bc, ln, jumpnum, "UNDEFINED_LINE_NUMBER")

\* Parser.jump_gosub: a stack entry is (position, run mode, handler), the
\* handler an event of Events or None
jump_gosub(ps, bc, ln, jumpnum, handler) ==
    jump([ps EXCEPT !.gosub_stack = Append(@, <<tell(ps), ps.run_mode, handler>>)],
         bc, ln, jumpnum, "UNDEFINED_LINE_NUMBER")

\* Parser.jump_return, lines 239-247, with the entry popped
return_to(ps, bc, ln, jumpnum, entry) ==
    IF jumpnum = None
    THEN PResult(set_pointer(ps, bc, entry[2], entry[1]), "ok", <<>>)
    ELSE jump(ps, bc, ln, jumpnum, "UNDEFINED_LINE_NUMBER")

\* Parser.jump_return, lines 238-241: the handler's event is no longer stopped
release_handler(ps, handler) ==
    IF handler = None THEN ps
    ELSE [ps EXCEPT !.events = [@ EXCEPT ![handler] = [@ EXCEPT !.stopped = FALSE]]]

\* a faulty variant of jump_return: the cursor goes back to the saved
\* position even when a line number is given
jump_return_to_saved(ps, bc, ln, jumpnum) ==
    IF ps.gosub_stack = <<>> THEN PResult(ps, "RETURN_WITHOUT_GOSUB", <<>>)
    ELSE return_to(release_handler([ps EXCEPT !.gosub_stack = SubSeq(@, 1, Len(@) - 1)],
                                   ps.gosub_stack[Len(ps.gosub_stack)][3]),
                   bc, ln, None, ps.gosub_stack[Len(ps.gosub_stack)])

\* Parser.jump_return
jump_return(ps, bc, ln, jumpnum) ==
    IF ps.gosub_stack = <<>> THEN PResult(ps, "RETURN_WITHOUT_GOSUB", <<>>)
    ELSE return_to(release_handler([ps EXCEPT !.gosub_stack = SubSeq(@, 1, Len(@) - 1)],
                                   ps.gosub_stack[Len(ps.gosub_stack)][3]),
                   bc, ln, jumpnum, ps.gosub_stack[Len(ps.gosub_stack)])

\* Parser.clear_loop_stacks, Parser.clear_stacks
clear_loop_stacks(ps) == [ps EXCEPT !.for_stack = <<>>, !.while_stack = <<>>]
clear_stacks(ps) == clear_loop_stacks([ps EXCEPT !.gosub_stack = <<>>])

\* Parser.restore: datanum -1 is the start of the program
restore(ps, ln, datanum) ==
    IF datanum = 0 - 1 THEN PResult([ps EXCEPT !.data_pos = 0], "ok", <<>>)
    ELSE IF datanum \in DOMAIN ln
    THEN PResult([ps EXCEPT !.data_pos = ln[datanum]], "ok", <<>>)
    ELSE PResult(ps, "UNDEFINED_LINE_NUMBER", <<>>)

\* session.events.reset: every event is off and has no handler, and events
\* are no longer suspended
events_reset(ps) ==
    [ps EXCEPT !.events = [e \in Events |-> [enabled |-> FALSE, triggered |-> FALSE,
                                             stopped |-> FALSE, gosub |-> None]],
               !.suspend_all = FALSE]

\* Parser.clear
clear(ps, ln) ==
    restore(clear_loop_stacks(events_reset(init_error_trapping(
                [ps EXCEPT !.error_num = 0, !.error_pos = 0]))), ln, 0 - 1)

\* error: the number of an error, which ERR reports
ErrNum(err) ==
    CASE err = "NEXT_WITHOUT_FOR" -> 1
      [] err = "STX" -> 2
      [] err = "RETURN_WITHOUT_GOSUB" -> 3
      [] err = "OUT_OF_DATA" -> 4
      [] err = "IFC" -> 5
      [] err = "Overflow" -> 6
      [] err = "UNDEFINED_LINE_NUMBER" -> 8
      [] err = "NO_RESUME" -> 19

\* c in tk.end_statement, with -1 for the empty read
InEndStatement(c) == InEndLine(c) \/ c = chColon

\* Parser.handle_basic_events, lines 160-170: the events from e on, in list
\* order; an error of jump_gosub ends the loop
RECURSIVE handle_events_from(_, _, _, _)
handle_next_event(r, bc, ln, e) ==
    IF r.err # "ok" THEN r ELSE handle_events_from(r.ps, bc, ln, e)

handle_events_from(ps, bc, ln, e) ==
    IF e \notin Events THEN PResult(ps, "ok", <<>>)
    ELSE IF /\ ps.events[e].enabled /\ ps.events[e].triggered
            /\ ~ps.events[e].stopped /\ ps.events[e].gosub # None
    THEN handle_next_event(
             jump_gosub([ps EXCEPT !.events =
                            [@ EXCEPT ![e] = [@ EXCEPT !.triggered = FALSE,
                                                       !.stopped = TRUE]]],
                        bc, ln, ps.events[e].gosub, e),
             bc, ln, e + 1)
    ELSE handle_events_from(ps, bc, ln, e + 1)

\* Parser.handle_basic_events
handle_basic_events(ps, bc, ln) ==
    IF ps.suspend_all \/ ~ps.run_mode THEN PResult(ps, "ok", <<>>)
    ELSE handle_events_from(ps, bc, ln, 1)

\* a faulty variant of trap_entered: events stay active in the handler
trap_entered_events_active(r) ==
    IF r.err # "ok" THEN r
    ELSE PResult([r.ps EXCEPT !.error_handle_mode = TRUE], "ok", <<1>>)

\* Parser.trap_error, lines 185-186, after the jump to the trap line; an
\* error of the jump leaves trap_error at once
trap_entered(r) ==
    IF r.err # "ok" THEN r
    ELSE PResult([r.ps EXCEPT !.error_handle_mode = TRUE, !.suspend_all = TRUE],
                 "ok", <<1>>)

\* a faulty variant of trap_taken: an error is trapped while another one is
\* being handled
trap_taken_while_handling(ps) == ps.on_error # None /\ ps.on_error # 0

\* Parser.trap_error, line 182: the error is trapped
trap_taken(ps) == ps.on_error # None /\ ps.on_error # 0 /\ ~ps.error_handle_mode

\* Parser.trap_error, lines 180-190, with ERR and ERL set
trap_or_raise(ps, bc, ln, err) ==
    IF trap_taken(ps)
    THEN trap_entered(jump([ps EXCEPT !.error_resume = <<ps.current_statement, ps.run_mode>>],
                           bc, ln, ps.on_error, "UNDEFINED_LINE_NUMBER"))
    ELSE PResult(set_pointer([ps EXCEPT !.error_handle_mode = FALSE], bc, FALSE, None),
                 err, <<>>)

\* Parser.trap_error(e) for an error err raised with position pos, or with
\* no position (haspos false)
trap_error(ps, bc, ln, err, haspos, pos) ==
    trap_or_raise([ps EXCEPT !.error_num = ErrNum(err),
                             !.error_pos = IF haspos THEN pos
                                           ELSE IF ps.run_mode THEN ps.program_pos - 1
                                           ELSE 0 - 1],
                  bc, ln, err)

\* the statement called at lines 101-112, whose code is elsewhere: it reads
\* to the end of the statement at p, or it raises the error outcome after
\* reading its first byte
execute_statement(ps, bc, ln, p, outcome) ==
    IF outcome = "ok"
    THEN PResult(seek(ps, skip_to(get_codestream(ps, bc), p, {0, chColon}, FALSE, FALSE)),
                 "ok", <<1>>)
    ELSE trap_error(seek(ps, p + 1), bc, ln, outcome, FALSE, 0)

\* Parser.parse_statement, lines 98-112: the statement after the line
\* number or colon, the stream being at p
statement_at(ps, bc, ln, p, outcome) ==
    IF InEndStatement(Peek(get_codestream(ps, bc), p))
    THEN PResult(seek(ps, p), "ok", <<1>>)
    ELSE execute_statement(ps, bc, ln, p, outcome)

\* a faulty variant of line_start: the end of the program ends the run even
\* when an error handler is unfinished
line_start_without_no_resume(ps, bc, ln, prepos, h, outcome) ==
    IF h.n # 0 - 1
    THEN statement_at(ps, bc, ln, skip(get_codestream(ps, bc), h.p, whitespace), outcome)
    ELSE PResult(set_pointer(ps, bc, FALSE, None), "ok", <<0>>)

\* Parser.parse_statement, lines 77-94: a line header at prepos, whose line
\* number h was read; the end of the program is no error unless an error
\* handler is unfinished
line_start(ps, bc, ln, prepos, h, outcome) ==
    IF h.n # 0 - 1
    THEN statement_at(ps, bc, ln, skip(get_codestream(ps, bc), h.p, whitespace), outcome)
    ELSE IF ps.error_resume # <<>>
    THEN trap_error([seek(ps, h.p) EXCEPT !.error_handle_mode = TRUE],
                    bc, ln, "NO_RESUME", TRUE, prepos - 1)
    ELSE PResult(set_pointer(ps, bc, FALSE, None), "ok", <<0>>)

\* Parser.parse_statement, lines 70-97: the start of the statement, the
\* stream being at p after whitespace
statement_start(ps, bc, ln, p, outcome) ==
    IF Peek(get_codestream(ps, bc), p) = 0 - 1
    THEN PResult(set_pointer(ps, bc, FALSE, None), "ok", <<0>>)
    ELSE IF Peek(get_codestream(ps, bc), p) = 0
    THEN line_start(ps, bc, ln, p, parse_line_number(get_codestream(ps, bc), p + 1), outcome)
    ELSE IF Peek(get_codestream(ps, bc), p) = chColon
    THEN statement_at(ps, bc, ln, skip(get_codestream(ps, bc), p + 1, whitespace), outcome)
    ELSE statement_at(ps, bc, ln, p, outcome)

\* Parser.parse_statement, lines 68-70, after handle_basic_events
after_events(r, bc, ln, outcome) ==
    IF r.err # "ok" THEN trap_error(r.ps, bc, ln, r.err, FALSE, 0)
    ELSE statement_start([r.ps EXCEPT !.current_statement = tell(r.ps)], bc, ln,
                         skip(get_codestream(r.ps, bc), tell(r.ps), whitespace), outcome)

\* Parser.parse_statement: the value returned is <<1>> for True, <<0>> for
\* False, and the error is the one that propagates to the caller
parse_statement(ps, bc, ln, outcome) ==
    after_events(handle_basic_events(ps, bc, ln), bc, ln, outcome)

\* vartypes.int_to_integer_signed: the range of an integer variable
InIntegerRange(n) == n >= 0 - 32768 /\ n <= 32767

\* Operators.number_sgn
number_sgn(n) == IF n > 0 THEN 1 ELSE IF n < 0 THEN 0 - 1 ELSE 0

\* Parser.loop_init for an integer variable: scalars holds the value of each
\* variable, and a FOR stack entry is (forpos, nextpos, variable, stop,
\* step, sgn), the variable standing for the reference to its value
loop_init(ps, forpos, nextpos, varname, start, stop, step) ==
    IF ~InIntegerRange(start - step) THEN PResult(ps, "Overflow", <<>>)
    ELSE PResult(seek([ps EXCEPT !.scalars = [@ EXCEPT ![varname] = start - step],
                                 !.for_stack = Append(@, <<forpos, nextpos, varname, stop,
                                                           step, number_sgn(step)>>)],
                      nextpos),
                 "ok", <<>>)

\* a faulty variant of number_inc_gt: a loop with step 0 ends at once
number_inc_gt_zero_ends(loopvar, stop, step, sgn) ==
    IF sgn = 0 THEN TRUE
    ELSE IF sgn > 0 THEN loopvar + step > stop ELSE stop > loopvar + step

\* a faulty variant of number_inc_gt: the loop ends when the limit is reached
number_inc_ge(loopvar, stop, step, sgn) ==
    IF sgn = 0 THEN FALSE
    ELSE IF sgn > 0 THEN loopvar + step >= stop ELSE stop >= loopvar + step

\* Parser.number_inc_gt for an integer variable of value loopvar: whether
\* the incremented value is past the limit
number_inc_gt(loopvar, stop, step, sgn) ==
    IF sgn = 0 THEN FALSE
    ELSE IF sgn > 0 THEN loopvar + step > stop ELSE stop > loopvar + step

\* Parser.loop_iterate, lines 280-285: the depth, from the top of the FOR
\* stack, of the first entry whose NEXT is at pos; the stack's length if none
RECURSIVE find_next(_, _, _)
find_next(stack, pos, depth) ==
    IF depth >= Len(stack) THEN Len(stack)
    ELSE IF stack[Len(stack) - depth][2] = pos THEN depth
    ELSE find_next(stack, pos, depth + 1)

\* Parser.loop_iterate, lines 289-295, for the entry now on top of the stack:
\* the variable is incremented in place; storing a value out of range fails
iterate_top(ps, entry) ==
    IF entry[6] # 0 /\ ~InIntegerRange(ps.scalars[entry[3]] + entry[5])
    THEN PResult(ps, "Overflow", <<>>)
    ELSE IF number_inc_gt(ps.scalars[entry[3]], entry[4], entry[5], entry[6])
    THEN PResult([ps EXCEPT !.scalars = [@ EXCEPT ![entry[3]] = @ + entry[5]],
                            !.for_stack = SubSeq(@, 1, Len(@) - 1)],
                 "ok", <<0>>)
    ELSE PResult(seek([ps EXCEPT !.scalars = [@ EXCEPT ![entry[3]] =
                                                 IF entry[6] = 0 THEN @ ELSE @ + entry[5]]],
                      entry[1]),
                 "ok", <<1>>)

\* a faulty variant of loop_iterate: the entries above the matching one stay
loop_iterate_keeps_inner(ps, pos) ==
    IF find_next(ps.for_stack, pos, 0) >= Len(ps.for_stack)
    THEN PResult(ps, "NEXT_WITHOUT_FOR", <<>>)
    ELSE iterate_top(ps, ps.for_stack[Len(ps.for_stack) - find_next(ps.for_stack, pos, 0)])

\* Parser.loop_iterate: the entries above the matching one are dropped; the
\* value returned is <<1>> for True (the loop goes on), <<0>> for False
loop_iterate(ps, pos) ==
    IF find_next(ps.for_stack, pos, 0) >= Len(ps.for_stack)
    THEN PResult(ps, "NEXT_WITHOUT_FOR", <<>>)
    ELSE iterate_top([ps EXCEPT !.for_stack =
                         SubSeq(@, 1, Len(@) - find_next(ps.for_stack, pos, 0))],
                     ps.for_stack[Len(ps.for_stack) - find_next(ps.for_stack, pos, 0)])

\* a faulty variant of add_char: whitespace goes into the item as it comes
add_char_untrimmed(vals, word, literal, c) ==
    [vals |-> Append(vals, c), word |-> <<>>]

\* Parser.read_entry, lines 334-342: c is added to the item; whitespace is
\* held in word until a character that is not whitespace follows
add_char(vals, word, literal, c) ==
    IF c \in whitespace
    THEN [vals |-> IF literal THEN Append(vals, c) ELSE vals,
          word |-> IF literal THEN word ELSE Append(word, c)]
    ELSE [vals |-> IF literal THEN Append(vals, c) \o word ELSE vals \o Append(word, c),
          word |-> <<>>]

\* Parser.read_entry, lines 317-342: the item read from offset p on, with
\* the offset where reading stops
RECURSIVE read_item(_, _, _, _, _)
RECURSIVE read_char(_, _, _, _, _)
\* lines 328-332: a quote; after a closing quote util.require skips
\* whitespace and wants the end of the statement or a comma
read_quote(bc, p, vals, word, literal) ==
    IF literal
    THEN IF InEndStatement(Peek(bc, skip(bc, p, whitespace)))
            \/ Peek(bc, skip(bc, p, whitespace)) = chComma
         THEN read_item(bc, skip(bc, p, whitespace), vals, word, FALSE)
         ELSE [p |-> skip(bc, p, whitespace), vals |-> <<>>, err |-> "STX"]
    ELSE read_item(bc, p, vals, word, TRUE)

\* lines 325-342: the character at p
read_char(bc, p, vals, word, literal) ==
    IF \/ Peek(bc, p) = 0 - 1
       \/ (~literal /\ Peek(bc, p) = chComma)
       \/ InEndLine(Peek(bc, p))
       \/ (~literal /\ InEndStatement(Peek(bc, p)))
    THEN [p |-> p, vals |-> vals, err |-> "ok"]
    ELSE IF Peek(bc, p) = chQuote
    THEN read_quote(bc, p + 1, vals, word, literal)
    ELSE read_item(bc, p + 1, add_char(vals, word, literal, bc[p + 1]).vals,
                   add_char(vals, word, literal, bc[p + 1]).word, literal)

\* lines 319-323: leading whitespace is skipped
read_item(bc, p, vals, word, literal) ==
    read_char(bc, IF ~literal /\ vals = <<>> THEN skip(bc, p, whitespace) ELSE p,
              vals, word, literal)

\* lines 341-343: the item is returned, the DATA cursor is where reading
\* stopped and the program stream is back where it was; an error leaves the
\* stream where it was raised
read_from(ps, item) ==
    IF item.err = "ok" THEN PResult([ps EXCEPT !.data_pos = item.p], "ok", item.vals)
    ELSE PResult([ps EXCEPT !.program_pos = item.p], item.err, <<>>)

\* lines 314-316, from the offset p of the DATA token or comma
read_at(ps, bc, p) ==
    IF Peek(bc, p) \in {tkDATA, chComma}
    THEN read_from(ps, read_item(bc, p + 1, <<>>, <<>>, FALSE))
    ELSE PResult([ps EXCEPT !.program_pos = AfterRead(bc, p, 1)], "OUT_OF_DATA", <<>>)

\* Parser.read_entry: the item as a string, on the stream of the program
read_entry(ps, bc) ==
    read_at(ps, bc, IF InEndStatement(Peek(bc, ps.data_pos))
                    THEN skip_to(bc, ps.data_pos, {tkDATA}, FALSE, FALSE)
                    ELSE ps.data_pos)

-----------------------------------------------------------------------------
(* Parser: the expression evaluator *)

\* basictoken: the operator tokens -, * and \, the constants 0 to 10, NOT
tkO_MINUS == 234
tkO_TIMES == 235
tkO_INTDIV == 244
tkC_0 == 17
tkNOT == 211
chOpen == 40
chClose == 41

\* operators.operators and operators.precedence, for the operators of the
\* model: the precedence of an operator token; one table serves the unary
\* and the binary use of a token
operators == {tkO_TIMES, tkO_INTDIV, tkO_PLUS, tkO_MINUS, tkNOT}
precedence(d) ==
    CASE d = tkO_TIMES -> 11
      [] d = tkO_INTDIV -> 10
      [] d = tkO_PLUS \/ d = tkO_MINUS -> 8
      [] d = tkNOT -> 6

\* Operators.unary: the tokens that have a unary use, and its value
unary == {tkO_MINUS, tkO_PLUS, tkNOT}
apply_unary(oper, right) ==
    IF oper = tkO_MINUS THEN 0 - right
    ELSE IF oper = tkNOT THEN 0 - right - 1
    ELSE right

\* the value a failed operation is replaced with: fp.Single.max
SingleMax == 1000000

\* Operators.number_intdiv: the quotient truncated towards zero
Abs(n) == IF n < 0 THEN 0 - n ELSE n
intdiv(left, right) ==
    IF (left >= 0) = (right >= 0) THEN Abs(left) \div Abs(right)
    ELSE 0 - (Abs(left) \div Abs(right))

\* Operators.binary: the value, or the exception raised
apply_binary(oper, left, right) ==
    IF oper = tkO_INTDIV
    THEN IF right = 0 THEN [val |-> 0, exc |-> "ZeroDivisionError"]
         ELSE [val |-> intdiv(left, right), exc |-> "none"]
    ELSE IF oper = tkO_TIMES THEN [val |-> left * right, exc |-> "none"]
    ELSE IF oper = tkO_PLUS THEN [val |-> left + right, exc |-> "none"]
    ELSE [val |-> left - right, exc |-> "none"]

\* a faulty variant of _handle_math_error: overflow and division by zero are
\* never raised as errors
handle_math_error_untrapped(st, on_error, e) ==
    IF e = "ValueError" THEN [st EXCEPT !.err = "IFC"]
    ELSE [st EXCEPT !.units = Append(@, SingleMax), !.msgs = @ + 1]

\* Parser._handle_math_error for the exception e raised by an operator: the
\* error raised, or a message written and the greatest value put in the
\* place of the result
handle_math_error(st, on_error, e) ==
    IF e = "ValueError" THEN [st EXCEPT !.err = "IFC"]
    ELSE IF on_error # None /\ on_error # 0
    THEN [st EXCEPT !.err = IF e = "OverflowError" THEN "Overflow"
                             ELSE "DIVISION_BY_ZERO"]
    ELSE [st EXCEPT !.units = Append(@, SingleMax), !.msgs = @ + 1]

\* Parser._evaluate_stack, lines 514-524: the operator popped from the stack
\* is applied to the operands popped from units. st.exc is the exception that
\* the next operator applied raises, whatever its operands ("none" if it
\* raises only what its operands make it raise)
apply_top(st, on_error, missing_err) ==
    LET top == st.stack[Len(st.stack)]
        n == Len(st.units)
        popped == [st EXCEPT !.stack = SubSeq(@, 1, Len(@) - 1)]
    IN  IF n = 0 THEN [popped EXCEPT !.err = missing_err]
        ELSE IF top[2] = 2 /\ n = 1
        THEN [popped EXCEPT !.units = <<>>, !.err = missing_err]
        ELSE
            LET rest == SubSeq(st.units, 1, n - top[2])
                r == IF top[2] = 1
                     THEN [val |-> apply_unary(top[1], st.units[n]), exc |-> "none"]
                     ELSE apply_binary(top[1], st.units[n - 1], st.units[n])
                e == IF st.exc # "none" THEN st.exc ELSE r.exc
            IN  IF e = "none" THEN [popped EXCEPT !.units = Append(rest, r.val)]
                ELSE handle_math_error([popped EXCEPT !.units = rest, !.exc = "none"],
                                       on_error, e)

\* Parser._evaluate_stack
RECURSIVE evaluate_stack(_, _, _, _)
evaluate_stack(st, on_error, prec, missing_err) ==
    IF st.err # "ok" \/ st.stack = <<>> THEN st
    ELSE IF prec > precedence(st.stack[Len(st.stack)][1]) THEN st
    ELSE evaluate_stack(apply_top(st, on_error, missing_err), on_error, prec, missing_err)

\* c in tk.end_expression and not in tk.end_statement
InEndExpression(c) == c \in {chClose, 93, chComma, 59}

\* Parser.parse_literal: a number constant or a jump number; st.p is the
\* offset of the token. String literals and numbers written in digits are
\* not among the tokens of the expressions of the model
parse_literal(s, st) ==
    LET d == Peek(s, st.p)
    IN  IF d \in tkC_0..(tkC_0 + 10)
        THEN [st EXCEPT !.units = Append(@, d - tkC_0), !.p = @ + 1]
        ELSE IF d = T_UINT /\ st.p + 3 <= Len(s)
        THEN [st EXCEPT !.units = Append(@, FromU16(Slice(s, st.p + 1, st.p + 3))),
                        !.p = @ + 3]
        ELSE [st EXCEPT !.err = "STX"]

\* Parser.parse_expression, lines 449-468: the operator d is read; it is
\* unary after an operator and at the start, and binary otherwise. The
\* comparison operators, which combine, are not among the operators of the
\* model
read_operator(st, on_error, last, d) ==
    IF last \in operators \/ last = None \/ d = tkNOT
    THEN IF d \notin unary THEN [st EXCEPT !.err = "STX"]
         ELSE [st EXCEPT !.stack = Append(@, <<d, 1>>), !.p = @ + 1]
    ELSE LET drained == evaluate_stack(st, on_error, precedence(d), "STX")
         IN  IF drained.err # "ok" THEN drained
             ELSE [drained EXCEPT !.stack = Append(@, <<d, 2>>), !.p = @ + 1]

\* Parser.parse_expression: its state is the offset p in the stream s, the
\* operator stack, the units, the error raised, the messages written and
\* st.exc; last is the token before d (None at the start)
RECURSIVE parse_expression(_, _, _, _, _)
RECURSIVE expression_loop(_, _, _, _)
\* lines 494-505, after the loop
expression_end(st, on_error, missing_error, allow_empty) ==
    IF st.units # <<>> \/ st.stack # <<>>
    THEN evaluate_stack(st, on_error, 0, missing_error)
    ELSE IF allow_empty THEN st
    ELSE [st EXCEPT !.err = missing_error]

\* Parser.parse_bracket, lines 351-352, after the opening bracket: the value
\* of the expression inside is a unit
parse_bracket(s, st, on_error) ==
    LET inner == parse_expression(s, st.p + 1, on_error, st.exc, FALSE)
        close == skip(s, inner.p, whitespace)
    IN  IF inner.err # "ok"
        THEN [st EXCEPT !.err = inner.err, !.p = inner.p, !.msgs = @ + inner.msgs,
                        !.exc = inner.exc]
        ELSE IF Peek(s, close) # chClose
        THEN [st EXCEPT !.err = "STX", !.p = close, !.msgs = @ + inner.msgs,
                        !.exc = inner.exc]
        ELSE [st EXCEPT !.units = Append(@, inner.units[1]), !.p = close + 1,
                        !.msgs = @ + inner.msgs, !.exc = inner.exc]

\* lines 440-493: one turn of the loop; the result carries missing_error
expression_loop(s, st0, on_error, last) ==
    LET st == [st0 EXCEPT !.p = skip(s, st0.p, whitespace)]
        d == Peek(s, st.p)
    IN  IF st.err # "ok" THEN [st |-> st, missing |-> "MISSING_OPERAND"]
        ELSE IF d = tkNOT /\ ~(last \in operators \/ last = None)
        THEN [st |-> st, missing |-> "MISSING_OPERAND"]
        ELSE IF d \in operators
        THEN expression_loop(s, read_operator(st, on_error, last, d), on_error, d)
        ELSE IF ~(last \in operators \/ last = None)
        THEN [st |-> st, missing |-> "MISSING_OPERAND"]
        ELSE IF d = chOpen
        THEN expression_loop(s, parse_bracket(s, st, on_error), on_error, d)
        ELSE IF InEndStatement(d) THEN [st |-> st, missing |-> "MISSING_OPERAND"]
        ELSE IF InEndExpression(d) THEN [st |-> st, missing |-> "STX"]
        ELSE expression_loop(s, parse_literal(s, st), on_error, d)

parse_expression(s, p, on_error, exc, allow_empty) ==
    LET r == expression_loop(s, [p |-> p, stack |-> <<>>, units |-> <<>>,
                                 err |-> "ok", msgs |-> 0, exc |-> exc],
                             on_error, None)
    IN  IF r.st.err # "ok" THEN r.st
        ELSE expression_end(r.st, on_error, r.missing, allow_empty)

-----------------------------------------------------------------------------
(* Inputs *)

\* line numbers given to store_line
StoreNums == {0, 10, 20, 65535}

\* line bodies given to store_line: none, blank, GOTO 10 followed by a REM
\* whose text holds the bytes of a jump token, GOTO 99, ERROR GOTO 0
Bodies ==
    { <<>>, <<chSpace>>,
      <<tkGOTO, T_UINT, 10, 0, tkREM, T_UINT, 10, 10>>,
      <<tkGOTO, chSpace, T_UINT, 99, 0>>,
      <<tkERROR, chSpace, tkGOTO, chSpace, T_UINT, 0, 0>> }

\* line ranges given to delete and list_lines
FromNums == {None, 20}
ToNums == {None, 10, 20}
ListToNums == {None, 20}
\* lines given to edit
EditNums == {10, 20}

\* the files given to load: a two-line program saved as bytecode and as a
\* protected file
FileProgram ==
    LET one == store_line(erase.bc, erase.ln, FALSE, None,
                          LineBuf(10, <<tkGOTO, T_UINT, 10, 0, tkREM, T_UINT, 10, 10>>))
        two == store_line(one.bc, one.ln, FALSE, None,
                          LineBuf(20, <<tkGOTO, chSpace, T_UINT, 99, 0>>))
    IN  two.bc
Files ==
    { [filetype |-> "B", content |-> Slice(FileProgram, 1, Len(FileProgram))],
      [filetype |-> "P", content |-> protect_bytes(Slice(FileProgram, 1, Len(FileProgram)))] }

\* arguments (new_line, start_line, step) given to renum; the RENUM
\* statement rejects a step below 1
RenumArgs ==
    { <<None, None, None>>, <<None, 20, None>>, <<0, 20, None>>, <<0, None, 1>>,
      <<65529, None, 1>>, <<65529, None, None>>, <<65529, 20, 1>> }

-----------------------------------------------------------------------------
(* WindowsShell: the main loop of launch and the two reader threads *)

\* the output streams of the subprocess: stdout and stderr, one reader each
Streams == {1, 2}

\* the state before launch is called. mpc is the position of the main
\* loop, rpc that of each reader thread; alive is p.poll() is None; pipes
\* holds the bytes written to each stream and not read yet, held the byte
\* a reader has read and not appended yet; joined is the join of
\* shell_output the main loop holds; screen is what was written to the
\* screen, appended what the readers appended, written the number of bytes
\* the subprocess wrote. A byte is its number in the order of writing
ShellInit ==
    [ mpc |-> "idle", rpc |-> <<"idle", "idle">>, alive |-> FALSE,
      pipes |-> << <<>>, <<>> >>, held |-> <<0, 0>>,
      shell_output |-> <<>>, joined |-> <<>>, screen |-> <<>>,
      appended |-> <<>>, written |-> 0 ]

\* launch, lines 102-112: the subprocess and the two threads are started
launch_start(sh) ==
    [sh EXCEPT !.mpc = "while", !.rpc = <<"read", "read">>, !.alive = TRUE]

\* the subprocess writes a byte to stream i
process_write(sh, i) ==
    [sh EXCEPT !.pipes[i] = Append(@, sh.written + 1), !.written = @ + 1]

\* _process_stdout, lines 89-90 and 94-95: stream.read(1) returns a byte;
\* or, the subprocess having ended, it returns nothing and p.poll() is not
\* None, which ends the thread
process_stdout_read(sh, i) ==
    IF sh.pipes[i] # <<>>
    THEN [sh EXCEPT !.held[i] = Head(sh.pipes[i]), !.pipes[i] = Tail(@),
                    !.rpc[i] = "append"]
    ELSE [sh EXCEPT !.rpc[i] = "done"]

\* _process_stdout, line 93: shell_output.append(c)
process_stdout_append(sh, i) ==
    [sh EXCEPT !.shell_output = Append(@, sh.held[i]),
               !.appended = Append(@, sh.held[i]), !.rpc[i] = "read"]

\* launch, line 114: while p.poll() is None or shell_output
launch_while(sh) ==
    IF sh.alive \/ sh.shell_output # <<>> THEN [sh EXCEPT !.mpc = "if"]
    ELSE [sh EXCEPT !.mpc = "join"]

\* launch, lines 115-116: if shell_output, its join is evaluated
launch_join_output(sh) ==
    IF sh.shell_output # <<>>
    THEN [sh EXCEPT !.joined = sh.shell_output, !.mpc = "clear"]
    ELSE [sh EXCEPT !.mpc = "keys"]

\* launch, lines 116-120: shell_output[:] = [], and what was joined is
\* written to the screen
launch_clear(sh) ==
    [sh EXCEPT !.shell_output = <<>>, !.screen = @ \o sh.joined,
               !.joined = <<>>, !.mpc = "keys"]

\* launch, lines 121-144, no key being pressed: back to the loop's test
launch_keys(sh) == [sh EXCEPT !.mpc = "while"]

\* launch, lines 145-146: both threads have ended
launch_return(sh) == [sh EXCEPT !.mpc = "done"]

-----------------------------------------------------------------------------
(* The state machine *)

Call(name, a, b, c, err) == [name |-> name, a |-> a, b |-> b, c |-> c, err |-> err]

\* a call's effect on the program
Apply(r, name, a, b, c) ==
    /\ nops' = nops + 1
    /\ bytecode' = r.bc
    /\ line_numbers' = r.ln
    /\ protected' = r.prot
    /\ last_stored' = r.last
    /\ op' = Call(name, a, b, c, r.err)
    /\ out' = r.out
    /\ UNCHANGED <<parser, unreturned, last_loop, reads, shell>>

Init ==
    /\ bytecode = erase.bc
    /\ line_numbers = erase.ln
    /\ protected = erase.prot
    /\ last_stored = erase.last
    /\ op = Call("init", None, None, None, "ok")
    /\ out = <<>>
    /\ nops = 0
    /\ parser = ParserInit
    /\ unreturned = <<>>
    /\ last_loop = <<>>
    /\ reads = [items |-> <<>>, n |-> 0 - 1]
    /\ shell = ShellInit

StoreLine ==
    \E n \in StoreNums, body \in Bodies :
        /\ nops < MaxOps
        /\ Len(Lines(bytecode)) < MaxLines \/ n \in DOMAIN line_numbers
        /\ Apply(store_line(bytecode, line_numbers, protected, last_stored, LineBuf(n, body)),
                 "store_line", n, body, None)

Delete ==
    \E fromline \in FromNums, toline \in ToNums :
        /\ nops < MaxOps
        /\ Apply(delete(bytecode, line_numbers, protected, last_stored, fromline, toline),
                 "delete", fromline, toline, None)

Renum ==
    /\ nops < MaxOps
    /\ \E args \in RenumArgs :
        \E r \in renum(bytecode, line_numbers, protected, last_stored,
                       args[1], args[2], args[3]) :
            Apply(r, "renum", args[1], args[2], args[3])

ListLines ==
    \E from_line \in FromNums, to_line \in ListToNums :
        /\ nops < MaxOps
        /\ Apply(list_lines(bytecode, line_numbers, protected, last_stored, from_line, to_line),
                 "list_lines", from_line, to_line, None)

Edit ==
    \E from_line \in EditNums :
        /\ nops < MaxOps
        /\ Apply(edit(bytecode, line_numbers, protected, last_stored, from_line),
                 "edit", from_line, None, None)

Save ==
    \E mode \in {"A", "B", "P"} :
        /\ nops < MaxOps
        /\ Apply(save(bytecode, line_numbers, protected, last_stored, mode),
                 "save", mode, None, None)

Load ==
    \E f \in Files :
        /\ nops < MaxOps
        /\ Apply(load(f.filetype, f.content), "load", f.filetype, None, None)

Erase ==
    /\ nops < MaxOps
    /\ Apply(erase, "erase", None, None, None)

Next ==
    \/ StoreLine
    \/ Delete
    \/ Renum
    \/ ListLines
    \/ Edit
    \/ Save
    \/ Load
    \/ Erase

Spec == Init /\ [][Next]_vars

\* the calls that edit the program: store_line, delete and renum only
NextEdit ==
    \/ StoreLine
    \/ Delete
    \/ Renum

SpecEdit == Init /\ [][NextEdit]_vars

\* store_line, delete and save on a new program
NextStore ==
    \/ StoreLine
    \/ Delete
    \/ Save

SpecStore == Init /\ [][NextStore]_vars

\* text program lines: a line number, a space and a statement
TextNumbers == {<<49, 48>>, <<50, 48, 48>>}
\* expressions: 1, +1, A, A+1, "X"
TextExprs == {<<49>>, <<43, 49>>, <<65>>, <<65, 43, 49>>, <<34, 88, 34>>}
\* statements: PRINT e, WHILE e, with or without a space before e where e
\* starts with no name character; A=e; GOTO n; THEN/ELSE jumps; comments;
\* DATA
TextStatements ==
    {Keyword(k) \o <<chSpace>> \o e : k \in {tkPRINT, tkWHILE}, e \in TextExprs}
    \cup {Keyword(k) \o e : k \in {tkPRINT, tkWHILE},
                            e \in {x \in TextExprs : x[1] \notin name_chars}}
    \cup {<<65, 61>> \o e : e \in TextExprs}
    \cup {<<97, 61>> \o e : e \in TextExprs}
    \cup {<<103, 111, 116, 111, 32, 49, 48>>,
          <<71, 79, 84, 79, 32, 49, 48>> \o <<58>> \o Keyword(tkPRINT),
          <<73, 70, 32, 65, 32>> \o Keyword(tkTHEN) \o <<32, 49, 48, 32>>
                \o Keyword(tkELSE) \o <<32, 50, 48>>,
          <<73, 70, 32, 65, 32>> \o Keyword(tkTHEN) \o <<32, 49, 48>>
                \o Keyword(tkELSE) \o <<32, 50, 48>>,
          Keyword(tkREM) \o <<32, 120, 39, 49>>,
          <<39, 120, 32, 49>>,
          Keyword(tkPRINT) \o <<58, 39, 120>>,
          Keyword(tkDATA) \o <<32, 49, 44, 34, 65, 44, 66, 34, 44, 51>>,
          Keyword(tkPRINT)}
TextLines == {n \o <<chSpace>> \o st : n \in TextNumbers, st \in TextStatements}

\* Tokeniser.tokenise_line on a text line
TokeniseLine ==
    \E line \in TextLines :
        /\ op.name = "init"
        /\ Apply(Result(bytecode, line_numbers, protected, last_stored, "ok",
                        tokenise_line(line)),
                 "tokenise_line", line, None, None)

\* Tokeniser.detokenise_line on the line buffer tokenise_line returned
DetokeniseLine ==
    /\ op.name = "tokenise_line"
    /\ Apply(Result(bytecode, line_numbers, protected, last_stored, "ok",
                    detokenise_line(out, 1)),
             "detokenise_line", op.a, out, None)

NextTokenise ==
    \/ TokeniseLine
    \/ DetokeniseLine

SpecTokenise == Init /\ [][NextTokenise]_vars

\* lines of plain-text files: 10 PRINT 1, 20 GOTO 10, 10 A=1, a line
\* number alone, an empty line, a line of spaces, a statement without
\* line number
FileLines ==
    { <<49, 48, 32>> \o Keyword(tkPRINT) \o <<32, 49>>,
      <<50, 48, 32>> \o Keyword(tkGOTO) \o <<32, 49, 48>>,
      <<49, 48, 32, 65, 61, 49>>,
      <<49, 48>>,
      <<>>,
      <<32, 32>>,
      Keyword(tkPRINT) \o <<32, 49>> }

\* the sequences of up to n lines
RECURSIVE FilesUpTo(_)
FilesUpTo(n) ==
    IF n = 0 THEN {<<>>}
    ELSE LET S == FilesUpTo(n - 1)
         IN  S \cup {Append(f, l) : f \in S, l \in FileLines}

\* plain-text files of up to MaxFileLines lines
TextFiles == FilesUpTo(MaxFileLines)

\* Program.load of a plain-text file (filetype 'A'), given as its lines
LoadText ==
    \E lines \in TextFiles :
        /\ nops < MaxOps
        /\ Apply(load("A", lines), "load_text", None, lines, None)

\* store_line and load of plain-text files
NextText ==
    \/ StoreLine
    \/ LoadText

SpecText == Init /\ [][NextText]_vars

\* a call's effect on the program, the call not counted against MaxOps
ApplyFirst(r, name, a, b, c) ==
    /\ nops' = nops
    /\ bytecode' = r.bc
    /\ line_numbers' = r.ln
    /\ protected' = r.prot
    /\ last_stored' = r.last
    /\ op' = Call(name, a, b, c, r.err)
    /\ out' = r.out
    /\ UNCHANGED <<parser, unreturned, last_loop, reads, shell>>

\* load as the first call of a session
LoadFirst ==
    \E f \in Files :
        /\ op.name = "init"
        /\ ApplyFirst(load(f.filetype, f.content), "load", f.filetype, None, None)

\* the editing calls on a new or a loaded program
NextLoaded ==
    \/ LoadFirst
    \/ StoreLine
    \/ Delete
    \/ Renum

SpecLoaded == Init /\ [][NextLoaded]_vars

-----------------------------------------------------------------------------
(* The Parser's state machine *)

\* a Parser call's effect
ApplyParser(r, name, a, b, c) ==
    /\ nops' = nops + 1
    /\ parser' = r.ps
    /\ op' = Call(name, a, b, c, r.err)
    /\ out' = r.val
    /\ UNCHANGED <<bytecode, line_numbers, protected, last_stored>>

\* the program the parser runs: 10 PRINT:PRINT / 20 PRINT / 900 PRINT
ProgramText ==
    << <<49, 48, 32>> \o Keyword(tkPRINT) \o <<chColon>> \o Keyword(tkPRINT),
       <<50, 48, 32>> \o Keyword(tkPRINT),
       <<57, 48, 48, 32>> \o Keyword(tkPRINT) >>

\* the direct line the session hands to the parser: PRINT:PRINT
DirectLine == tokenise_line(Keyword(tkPRINT) \o <<chColon>> \o Keyword(tkPRINT))

\* lines given to jump, jump_gosub and jump_return; line 99 does not exist
JumpNums == {None, 20, 99}
GosubNums == {10, 900, 99}
ReturnNums == {None, 20}
\* what the statement parse_statement calls does: it ends, or it raises
Outcomes == {"ok", "IFC"}

\* the session loads the program before the first call
LoadProgram ==
    /\ op.name = "init"
    /\ ApplyFirst(load("A", ProgramText), "load_program", None, None, None)

\* the session hands a direct line to the parser, from its start
EnterDirectLine ==
    /\ nops < MaxOps
    /\ ApplyParser(PResult(set_pointer([parser EXCEPT !.direct_line = DirectLine],
                                       bytecode, FALSE, 0), "ok", <<>>),
                   "direct_line", None, None, None)
    /\ UNCHANGED <<unreturned, last_loop, reads, shell>>

Jump ==
    \E n \in JumpNums :
        /\ nops < MaxOps
        /\ ApplyParser(jump(parser, bytecode, line_numbers, n, "UNDEFINED_LINE_NUMBER"),
                       "jump", n, None, None)
        /\ UNCHANGED <<unreturned, last_loop, reads, shell>>

\* jump_gosub as the GOSUB statement calls it, with no handler
JumpGosub ==
    \E n \in GosubNums :
        /\ nops < MaxOps
        /\ ApplyParser(jump_gosub(parser, bytecode, line_numbers, n, None),
                       "jump_gosub", n, None, None)
        /\ unreturned' = Append(unreturned, <<tell(parser), parser.run_mode,
                                               Len(parser.gosub_stack)>>)
        /\ UNCHANGED <<last_loop, reads, shell>>

\* jump_return; a return from a GOSUB statement's call ends that call
JumpReturn ==
    \E n \in ReturnNums :
        /\ nops < MaxOps
        /\ ApplyParser(jump_return(parser, bytecode, line_numbers, n),
                       "jump_return", n, None, None)
        /\ unreturned' =
              IF /\ unreturned # <<>> /\ parser.gosub_stack # <<>>
                 /\ parser.gosub_stack[Len(parser.gosub_stack)][3] = None
              THEN SubSeq(unreturned, 1, Len(unreturned) - 1)
              ELSE unreturned
        /\ UNCHANGED <<last_loop, reads, shell>>

\* parse_statement; the call records the number of the error the statement
\* raises if it is executed, 0 if none
ParseStatement ==
    \E outcome \in Outcomes :
        /\ nops < MaxOps
        /\ ApplyParser(parse_statement(parser, bytecode, line_numbers, outcome),
                       "parse_statement",
                       IF outcome = "ok" THEN 0 ELSE ErrNum(outcome), None, None)
        /\ UNCHANGED <<unreturned, last_loop, reads, shell>>

\* GOSUB and RETURN in a program and in direct mode
NextGosub ==
    \/ LoadProgram
    \/ EnterDirectLine
    \/ Jump
    \/ JumpGosub
    \/ JumpReturn
    \/ ParseStatement

SpecGosub == Init /\ [][NextGosub]_vars

\* trap lines given to ON ERROR GOTO, and each event's handler line
TrapNums == {0, 900}
HandlerLine(e) == IF e = 1 THEN 20 ELSE 900

\* ON ERROR GOTO n, which the statement accepts for 0 and for a line of the
\* program: on_error is n
SetTrap ==
    \E n \in TrapNums :
        /\ nops < MaxOps
        /\ n = 0 \/ n \in DOMAIN line_numbers
        /\ ApplyParser(PResult([parser EXCEPT !.on_error = n], "ok", <<>>),
                       "on_error", n, None, None)
        /\ UNCHANGED <<unreturned, last_loop, reads, shell>>

\* event e, which has a handler line and is on, is triggered
EventTriggered ==
    \E e \in Events :
        /\ nops < MaxOps
        /\ ApplyParser(PResult([parser EXCEPT !.events =
                                   [@ EXCEPT ![e] = [@ EXCEPT !.enabled = TRUE,
                                                              !.triggered = TRUE,
                                                              !.gosub = HandlerLine(e)]]],
                               "ok", <<>>),
                       "event", e, None, None)
        /\ UNCHANGED <<unreturned, last_loop, reads, shell>>

\* statements with error traps and events, in a program that is edited
NextTrap ==
    \/ LoadProgram
    \/ EnterDirectLine
    \/ Jump
    \/ SetTrap
    \/ EventTriggered
    \/ Delete
    \/ ParseStatement

SpecTrap == Init /\ [][NextTrap]_vars

\* RUN after the program is loaded, with or without ON ERROR GOTO in force:
\* the program runs from its first line
StartRun ==
    \E n \in {None} \cup TrapNums :
        /\ op.name = "load_program"
        /\ parser' = set_pointer([parser EXCEPT !.on_error = n], bytecode, TRUE, 0)
        /\ op' = Call("run", n, None, None, "ok")
        /\ out' = <<>>
        /\ UNCHANGED <<nops, bytecode, line_numbers, protected, last_stored,
                       unreturned, last_loop, reads, shell>>

\* a program run to its end, and direct lines, with error traps
NextEnd ==
    \/ LoadProgram
    \/ StartRun
    \/ EnterDirectLine
    \/ Jump
    \/ ParseStatement

SpecEnd == Init /\ [][NextEnd]_vars

\* the FOR statements of the program: for each loop variable, the offsets of
\* the loop body and of its NEXT
ForPos(v) == IF v = 1 THEN 5 ELSE 9
NextPos(v) == IF v = 1 THEN 13 ELSE 12
LoopVars == 1..2
\* start, stop and step of the FOR statement of each variable: the loop of
\* variable 2 is inside that of variable 1. The values are those of an
\* integer variable, the least and the greatest included
LoopArgs(v) ==
    IF v = 1
    THEN { <<1, 1, 1>>, <<1, 3, 2>>, <<1, 2, 3>>, <<32766, 32767, 1>>,
           <<2, 1, 1>>, <<2, 1, 0 - 1>>, <<1, 2, 0 - 1>>, <<1, 1, 0>>,
           <<0 - 32768, 0 - 32767, 1>> }
    ELSE { <<2, 3, 1>> }
\* offsets given to loop_iterate: the NEXT of each loop, and another
NextOffsets == {12, 13, 17}

LoopInit ==
    \E v \in LoopVars : \E args \in LoopArgs(v) :
        /\ nops < MaxOps
        /\ ApplyParser(loop_init(parser, ForPos(v), NextPos(v), v,
                                 args[1], args[2], args[3]),
                       "loop_init", v, args[2], args[3])
        /\ last_loop' = <<args[1], args[2], args[3], NextPos(v),
                          Len(parser.for_stack), 0,
                          loop_init(parser, ForPos(v), NextPos(v), v,
                                    args[1], args[2], args[3]).err>>
        /\ UNCHANGED <<unreturned, reads, shell>>

LoopIterate ==
    \E pos \in NextOffsets :
        /\ nops < MaxOps
        /\ ApplyParser(loop_iterate(parser, pos), "loop_iterate", pos, None, None)
        /\ last_loop' =
              IF last_loop # <<>> /\ pos = last_loop[4]
              THEN [last_loop EXCEPT ![6] = @ + 1]
              ELSE <<>>
        /\ UNCHANGED <<unreturned, reads, shell>>

\* FOR loops
NextLoop ==
    \/ LoopInit
    \/ LoopIterate

SpecLoop == Init /\ [][NextLoop]_vars

\* an item of a DATA statement as it is written: spaces, the item in quotes
\* or not, spaces
Item(lead, quoted, body, trail) ==
    [lead |-> lead, quoted |-> quoted, body |-> body, trail |-> trail]
\* 1, "A,B", X Y between spaces, " A:" between spaces, the empty item, 3
Items ==
    { Item(0, FALSE, <<49>>, 0),
      Item(0, TRUE, <<65, chComma, 66>>, 0),
      Item(1, FALSE, <<88, chSpace, 89>>, 1),
      Item(1, TRUE, <<chSpace, 65, chColon>>, 1),
      Item(0, FALSE, <<>>, 0) }

Spaces(n) == [i \in 1..n |-> chSpace]
ItemText(item) ==
    Spaces(item.lead)
    \o (IF item.quoted THEN <<chQuote>> \o item.body \o <<chQuote>> ELSE item.body)
    \o Spaces(item.trail)

\* a DATA statement with the items given, and the items it holds
RECURSIVE ItemsText(_)
ItemsText(items) ==
    IF Len(items) = 1 THEN ItemText(items[1])
    ELSE ItemText(Head(items)) \o <<chComma>> \o ItemsText(Tail(items))
DataStatement(items) == Keyword(tkDATA) \o <<chSpace>> \o ItemsText(items)
Values(items) == [i \in 1..Len(items) |-> items[i].body]

\* programs with DATA statements, each with the items of its DATA
\* statements in order: 10 DATA a,b; 10 PRINT:DATA a / 20 DATA b:PRINT;
\* 10 DATA 1,"A,B",3; a program without DATA
DataPrograms ==
    { [text |-> << <<49, 48, 32>> \o DataStatement(<<a, b>>) >>,
       items |-> Values(<<a, b>>)] : a \in Items, b \in Items }
    \cup
    { [text |-> << <<49, 48, 32>> \o Keyword(tkPRINT) \o <<chColon>> \o DataStatement(<<a>>),
                  <<50, 48, 32>> \o DataStatement(<<b>>) \o <<chColon>> \o Keyword(tkPRINT) >>,
       items |-> Values(<<a, b>>)] : a \in Items, b \in Items }
    \cup
    { [text |-> << <<49, 48, 32>> \o DataStatement(<<Item(0, FALSE, <<49>>, 0),
                                                      Item(0, TRUE, <<65, chComma, 66>>, 0),
                                                      Item(0, FALSE, <<51>>, 0)>>) >>,
       items |-> << <<49>>, <<65, chComma, 66>>, <<51>> >>],
      [text |-> ProgramText, items |-> <<>>] }

\* lines given to restore: -1 for none, and line 20
RestoreNums == {0 - 1, 20}

\* the effect of loading a program whose DATA statements hold the items
\* given, the call not counted
ApplyData(r, items) ==
    /\ nops' = nops
    /\ bytecode' = r.bc
    /\ line_numbers' = r.ln
    /\ protected' = r.prot
    /\ last_stored' = r.last
    /\ op' = Call("load_program", None, None, None, r.err)
    /\ out' = <<>>
    /\ reads' = [items |-> items, n |-> 0 - 1]
    /\ UNCHANGED <<parser, unreturned, last_loop, shell>>

\* the session loads a program with DATA statements before the first call
LoadData ==
    \E prog \in DataPrograms :
        /\ op.name = "init"
        /\ ApplyData(load("A", prog.text), prog.items)

Restore ==
    \E datanum \in RestoreNums :
        /\ nops < MaxReads
        /\ ApplyParser(restore(parser, line_numbers, datanum), "restore", datanum, None, None)
        /\ reads' = [reads EXCEPT !.n = IF datanum = 0 - 1 THEN 0 ELSE 0 - 1]
        /\ UNCHANGED <<unreturned, last_loop, shell>>

ReadEntry ==
    /\ nops < MaxReads
    /\ ApplyParser(read_entry(parser, bytecode), "read_entry", None, None, None)
    /\ reads' = [reads EXCEPT !.n = IF @ >= 0 THEN @ + 1 ELSE @]
    /\ UNCHANGED <<unreturned, last_loop, shell>>

\* READ and RESTORE
NextData ==
    \/ LoadData
    \/ Restore
    \/ ReadEntry

SpecData == Init /\ [][NextData]_vars

\* the CLEAR statement
Clear ==
    /\ nops < MaxOps
    /\ ApplyParser(clear(parser, line_numbers), "clear", None, None, None)
    /\ UNCHANGED <<unreturned, last_loop, reads, shell>>

\* CLEAR after subroutine calls, loops, traps, errors and RESTORE
NextClear ==
    \/ LoadProgram
    \/ Jump
    \/ JumpGosub
    \/ SetTrap
    \/ ParseStatement
    \/ LoopInit
    \/ Restore
    \/ Clear

SpecClear == Init /\ [][NextClear]_vars

\* the events triggered between two statements, as a number: 1 for event 1
\* plus 2 for event 2
TriggerSets == SUBSET Events
Mask(T) == (IF 1 \in T THEN 1 ELSE 0) + (IF 2 \in T THEN 2 ELSE 0)

\* the events of T, each on and with its handler line, are triggered
triggered_events(ps, T) ==
    [ps EXCEPT !.events =
        [e \in Events |-> IF e \in T
                          THEN [ps.events[e] EXCEPT !.enabled = TRUE, !.triggered = TRUE,
                                                    !.gosub = HandlerLine(e)]
                          ELSE ps.events[e]]]

\* parse_statement after the events of T were triggered; the call records
\* the number of the error the statement raises, 0 if none, and T
ParseAfterEvents ==
    \E T \in TriggerSets, outcome \in Outcomes :
        /\ nops < MaxOps
        /\ ApplyParser(parse_statement(triggered_events(parser, T), bytecode,
                                       line_numbers, outcome),
                       "parse_after_events",
                       IF outcome = "ok" THEN 0 ELSE ErrNum(outcome), Mask(T), None)
        /\ UNCHANGED <<unreturned, last_loop, reads, shell>>

\* event handlers, RETURN, error traps and CLEAR in a running program
NextEvents ==
    \/ LoadProgram
    \/ Jump
    \/ ParseAfterEvents
    \/ JumpReturn
    \/ SetTrap
    \/ Clear

SpecEvents == Init /\ [][NextEvents]_vars

\* lines with jumps to line 0: ERROR GOTO 0 with and without spaces, GOTO 0,
\* ERROR GOTO 0:GOTO 0, and a blank body
JumpLineNums == {0, 10}
JumpBodies ==
    { <<tkERROR, chSpace, tkGOTO, chSpace, T_UINT, 0, 0>>,
      <<tkERROR, tkGOTO, T_UINT, 0, 0>>,
      <<tkGOTO, chSpace, T_UINT, 0, 0>>,
      <<tkERROR, chSpace, tkGOTO, chSpace, T_UINT, 0, 0, chColon,
        tkGOTO, chSpace, T_UINT, 0, 0>>,
      <<chSpace>> }

StoreJumpLine ==
    \E n \in JumpLineNums, body \in JumpBodies :
        /\ nops < MaxOps
        /\ Apply(store_line(bytecode, line_numbers, protected, last_stored, LineBuf(n, body)),
                 "store_line", n, body, None)

\* renum of programs that jump to line 0
NextJumps ==
    \/ StoreJumpLine
    \/ Renum

SpecJumps == Init /\ [][NextJumps]_vars

\* stream offsets given to get_line_number
Offsets == {0, 4, 10, 14, 20}

GetLineNumber ==
    \E pos \in Offsets :
        /\ nops < MaxOps
        /\ nops' = nops + 1
        /\ op' = Call("get_line_number", pos, None, None, "ok")
        /\ out' = <<get_line_number(line_numbers, pos)>>
        /\ UNCHANGED <<bytecode, line_numbers, protected, last_stored,
                       parser, unreturned, last_loop, reads, shell>>

\* the line of an offset in an edited program
NextIndex ==
    \/ StoreLine
    \/ Delete
    \/ Renum
    \/ GetLineNumber

SpecIndex == Init /\ [][NextIndex]_vars

\* the expressions given to parse_expression: up to MaxOperands operands
\* 0, 2 or 3, each with or without a minus sign, joined by - and \; and some
\* that are no expressions
OperandTokens == {tkC_0, tkC_0 + 2, tkC_0 + 3}
SignedOperands == {<<t>> : t \in OperandTokens} \cup {<<tkO_MINUS, t>> : t \in OperandTokens}
BinaryTokens == {tkO_MINUS, tkO_INTDIV}
RECURSIVE ExprsOf(_)
ExprsOf(n) ==
    IF n = 1 THEN SignedOperands
    ELSE {e \o <<o>> \o x : e \in ExprsOf(n - 1), o \in BinaryTokens, x \in SignedOperands}
Malformed ==
    { <<>>, <<tkO_INTDIV, tkC_0 + 2>>, <<tkC_0 + 2, tkO_INTDIV>>,
      <<tkC_0 + 2, tkC_0 + 3>>, <<tkC_0 + 2, tkO_MINUS, chClose>> }
Exprs == Malformed \cup UNION {ExprsOf(n) : n \in 1..MaxOperands}

\* what the first operator applied does, its code being elsewhere: it
\* returns, or it raises one of the exceptions that parse_expression catches
OperatorOutcomes == {"none", "OverflowError", "ZeroDivisionError", "ValueError"}
ExcNum(exc) ==
    CASE exc = "none" -> 0
      [] exc = "OverflowError" -> 1
      [] exc = "ZeroDivisionError" -> 2
      [] exc = "ValueError" -> 3

\* parse_expression as a statement calls it on its stream: the call records
\* the expression and the first operator's outcome; out is the value
\* returned (None if an error is raised), the lengths of the operator stack
\* and of units at the end, and the number of messages written
\* The evaluation changes nothing in the parser, so a second evaluation
\* right after one finds the state the first one found: it is left out
ApplyExpression(st, exc, e) ==
    ApplyParser(PResult(parser, st.err,
                        <<IF st.err = "ok" THEN st.units[1] ELSE None,
                          Len(st.stack), Len(st.units), st.msgs>>),
                "parse_expression", ExcNum(exc), e, None)

ParseExpression ==
    /\ nops < MaxOps
    /\ op.name # "parse_expression"
    /\ \E e \in Exprs, exc \in OperatorOutcomes :
           ApplyExpression(parse_expression(e, 0, parser.on_error, exc, FALSE), exc, e)
    /\ UNCHANGED <<unreturned, last_loop, reads, shell>>

\* expressions evaluated with and without an error trap
NextExpr ==
    \/ LoadProgram
    \/ SetTrap
    \/ ParseExpression

SpecExpr == Init /\ [][NextExpr]_vars

\* numbers written in text, around the greatest line number 65529, each
\* with a space at any one place or none, alone or followed by a colon
NumberDigits ==
    { <<54, 53, 53, 50, 57>>, <<54, 53, 53, 51, 48>>, <<54, 53, 53, 51, 53>>,
      <<55, 48, 48, 48, 48>>, <<54, 53, 53, 51, 57, 57>>, <<57, 57, 57, 57, 57, 57>>,
      <<54, 53, 53, 51>>, <<49, 48>>, <<48, 54, 53, 53, 51, 48>> }
WithSpaceAt(d, i) ==
    IF i = 0 THEN d ELSE SubSeq(d, 1, i) \o <<chSpace>> \o SubSeq(d, i + 1, Len(d))
NumberTexts ==
    UNION {{WithSpaceAt(d, i) \o e : i \in 0..Len(d), e \in {<<>>, <<chColon>>}} :
           d \in NumberDigits}

\* Tokeniser._tokenise_uint on the text of a number: out is the two bytes
\* written for the number and the offset at which the input is read on
TokeniseUint ==
    \E text \in NumberTexts :
        /\ op.name = "init"
        /\ Apply(Result(bytecode, line_numbers, protected, last_stored, "ok",
                        <<tokenise_uint(text, 0).word, tokenise_uint(text, 0).p>>),
                 "tokenise_uint", text, None, None)

\* the same text as the line number of a line
TokeniseNumberedLine ==
    \E text \in NumberTexts :
        /\ op.name = "init"
        /\ Apply(Result(bytecode, line_numbers, protected, last_stored, "ok",
                        tokenise_line(text)),
                 "tokenise_line", text, None, None)

NextNumbers ==
    \/ TokeniseUint
    \/ TokeniseNumberedLine

SpecNumbers == Init /\ [][NextNumbers]_vars

\* lines "10 <keyword> <number><separator><number>": the keyword and the
\* numbers, and as separator an operator, a comma or a keyword between spaces
JumpKeywords == {tkGOTO, tkGOSUB, tkTHEN, tkPRINT, tkERROR}
JumpNumbers == {<<50, 48>>, <<51, 48, 48>>}
JumpSeparators == {tkO_PLUS, tkO_MINUS, tkO_TIMES, 231, chComma, tkGOTO, tkPRINT, tkERROR}
SepText(t) ==
    IF t = chComma THEN <<chComma>>
    ELSE IF t \in tkOperator THEN Keyword(t)
    ELSE <<chSpace>> \o Keyword(t) \o <<chSpace>>
JumpLine(k, n1, t, n2) ==
    <<49, 48, chSpace>> \o Keyword(k) \o <<chSpace>> \o n1 \o SepText(t) \o n2

\* Tokeniser.tokenise_line on such a line; the parts of the line are kept
TokeniseJumpLine ==
    \E k \in JumpKeywords, n1 \in JumpNumbers, t \in JumpSeparators, n2 \in JumpNumbers :
        /\ op.name = "init"
        /\ Apply(Result(bytecode, line_numbers, protected, last_stored, "ok",
                        tokenise_line(JumpLine(k, n1, t, n2))),
                 "tokenise_jump_line", JumpLine(k, n1, t, n2), <<k, n1, t, n2>>, None)

NextJump == TokeniseJumpLine

SpecJump == Init /\ [][NextJump]_vars

\* the variables that SHELL leaves alone
program_vars == <<nops, bytecode, line_numbers, protected, last_stored, op, out,
                  parser, unreturned, last_loop, reads>>

\* WindowsShell.launch is called
Launch ==
    /\ shell.mpc = "idle"
    /\ shell' = launch_start(shell)
    /\ UNCHANGED program_vars

\* the subprocess writes a byte to one of its output streams
ProcessWrites ==
    \E i \in Streams :
        /\ shell.alive
        /\ shell.written < MaxBytes
        /\ shell' = process_write(shell, i)
        /\ UNCHANGED program_vars

\* the subprocess ends: p.poll() is not None from now on
ProcessEnds ==
    /\ shell.alive
    /\ shell' = [shell EXCEPT !.alive = FALSE]
    /\ UNCHANGED program_vars

\* a reader thread's stream.read(1) returns; it blocks while the pipe is
\* empty and the subprocess runs
ReaderReads ==
    \E i \in Streams :
        /\ shell.rpc[i] = "read"
        /\ shell.pipes[i] # <<>> \/ ~shell.alive
        /\ shell' = process_stdout_read(shell, i)
        /\ UNCHANGED program_vars

\* a reader thread appends the byte it read
ReaderAppends ==
    \E i \in Streams :
        /\ shell.rpc[i] = "append"
        /\ shell' = process_stdout_append(shell, i)
        /\ UNCHANGED program_vars

\* the main loop tests its condition
MainWhile ==
    /\ shell.mpc = "while"
    /\ shell' = launch_while(shell)
    /\ UNCHANGED program_vars

\* the main loop joins shell_output if it is not empty
MainJoinsOutput ==
    /\ shell.mpc = "if"
    /\ shell' = launch_join_output(shell)
    /\ UNCHANGED program_vars

\* the main loop clears shell_output and writes what it joined
MainClears ==
    /\ shell.mpc = "clear"
    /\ shell' = launch_clear(shell)
    /\ UNCHANGED program_vars

\* the main loop polls the subprocess and the keyboard
MainKeys ==
    /\ shell.mpc = "keys"
    /\ shell' = launch_keys(shell)
    /\ UNCHANGED program_vars

\* the main loop has ended and both threads are joined: launch returns
MainReturns ==
    /\ shell.mpc = "join"
    /\ shell.rpc = <<"done", "done">>
    /\ shell' = launch_return(shell)
    /\ UNCHANGED program_vars

\* SHELL: the main loop, the reader threads and the subprocess, interleaved
NextShell ==
    \/ Launch
    \/ ProcessWrites
    \/ ProcessEnds
    \/ ReaderReads
    \/ ReaderAppends
    \/ MainWhile
    \/ MainJoinsOutput
    \/ MainClears
    \/ MainKeys
    \/ MainReturns

SpecShell == Init /\ [][NextShell]_vars

\* addresses and bytes poked into the program: the offset field, the line
\* number and the body of the first line, the second line, past the end;
\* a zero, a line feed, a quote
PokeAddresses == {code_start + 1, code_start + 3, code_start + 6, code_start + 12}
PokeValues == {0, chLF, chQuote}

\* the effect of set_memory on the program and on the position of its
\* stream, which is the parser's program_code
ApplyPoke(r, pos, address, val, c) ==
    /\ nops' = nops + 1
    /\ bytecode' = r.bc
    /\ line_numbers' = r.ln
    /\ protected' = r.prot
    /\ last_stored' = r.last
    /\ parser' = [parser EXCEPT !.program_pos = pos]
    /\ op' = Call("set_memory", address, val, c, r.err)
    /\ out' = r.out
    /\ UNCHANGED <<unreturned, last_loop, reads, shell>>

\* Program.__init__: allow_code_poke is an option of the session, and both
\* settings are enumerated (op.c is 1 when it is set)
SetMemory ==
    \E allow_code_poke \in BOOLEAN, address \in PokeAddresses, val \in PokeValues :
        /\ nops < MaxOps
        /\ ApplyPoke(set_memory(bytecode, line_numbers, protected, last_stored,
                                allow_code_poke, address, val),
                     set_memory_tell(bytecode, allow_code_poke, address, val,
                                     parser.program_pos),
                     address, val, IF allow_code_poke THEN 1 ELSE 0)

NextPoke ==
    \/ StoreJumpLine
    \/ SetMemory

SpecPoke == Init /\ [][NextPoke]_vars

\* POKE into the code of a program that is running
NextPointer ==
    \/ LoadProgram
    \/ Jump
    \/ ParseStatement
    \/ SetMemory

SpecPointer == Init /\ [][NextPointer]_vars

-----------------------------------------------------------------------------
(* Claims about the line-number index *)

\* the line header at offset p of the stream encodes line number n
HeaderEncodes(s, p, n) ==
    /\ p >= 0 /\ p < Len(s) /\ s[p + 1] = 0
    /\ parse_line_number(s, p + 1).n = n

\* C1: for every line number n in the index other than the end key 65536,
\* the line header at the indexed offset of the stream encodes n
C1_IndexedHeaderEncodesNumber ==
    \A n \in (DOMAIN line_numbers) \ {EndKey} :
        HeaderEncodes(bytecode, line_numbers[n], n)

\* C2: the index is complete and exact: every line in the stream is indexed
\* at its start offset, no two lines carry the same number, and 65536 is
\* indexed at the terminating 00 00 00, the last three bytes of the stream
C2_IndexCompleteAndExact ==
    LET L == Lines(bytecode)
    IN  /\ \A i \in 1..Len(L) :
            L[i].num \in DOMAIN line_numbers /\ line_numbers[L[i].num] = L[i].pos
        /\ \A i, j \in 1..Len(L) : L[i].num = L[j].num => i = j
        /\ EndKey \in DOMAIN line_numbers
        /\ line_numbers[EndKey] = EndOfLines(bytecode)
        /\ line_numbers[EndKey] = Len(bytecode) - 3
        /\ Slice(bytecode, Len(bytecode) - 3, Len(bytecode)) = <<0, 0, 0>>

-----------------------------------------------------------------------------
(* Claims about store_line and delete *)

\* the step is a call of the named operation
IsCall(name) == nops' = nops + 1 /\ op'.name = name

\* the number and body of each line of a stream, in stream order
NumBody(s) ==
    LET L == Lines(s) IN [i \in 1..Len(L) |-> <<L[i].num, L[i].body>>]

\* a line body that holds nothing but whitespace
Blank(body) == \A i \in 1..Len(body) : body[i] \in whitespace

Ascending(nb) == \A i, j \in 1..Len(nb) : i < j => nb[i][1] < nb[j][1]

\* the lines of nb numbered other than n, and those numbered outside from..to
Others(nb, n) == LET Keep(e) == e[1] # n IN SelectSeq(nb, Keep)
Outside(nb, from, to) == LET Keep(e) == e[1] < from \/ e[1] > to IN SelectSeq(nb, Keep)

\* C3: store_line on an unprotected program inserts or replaces the
\* non-empty line n and deletes line n when the body is empty and n is
\* present: afterwards line n alone has changed, every other line keeps its
\* number and body, and the lines are in ascending line-number order
C3_StoreLineChangesOnlyLineN ==
    [][ LET n == op'.a
            body == op'.b
            before == NumBody(bytecode)
            after == NumBody(bytecode')
        IN  (/\ IsCall("store_line")
             /\ ~protected
             /\ ~Blank(body) \/ \E i \in 1..Len(before) : before[i][1] = n)
            => /\ op'.err = "ok"
               /\ Others(after, n) = Others(before, n)
               /\ IF Blank(body)
                  THEN \A i \in 1..Len(after) : after[i][1] # n
                  ELSE /\ \E i \in 1..Len(after) : after[i] = <<n, body>>
                       /\ Len(after) = Len(Others(before, n)) + 1
               /\ Ascending(after)
      ]_vars

C5_DeleteRemovesExactlyRange ==
    [][ LET from == IF op'.a = None THEN SetMin(DOMAIN line_numbers) ELSE op'.a
            to == IF op'.b = None THEN 65535 ELSE op'.b
            before == NumBody(bytecode)
            after == NumBody(bytecode')
        IN  IsCall("delete") =>
                IF Outside(before, from, to) = before
                THEN /\ op'.err = "IFC"
                     /\ bytecode' = bytecode
                     /\ line_numbers' = line_numbers
                ELSE /\ op'.err = "ok"
                     /\ after = Outside(before, from, to)
                     /\ DOMAIN line_numbers' =
                            {k \in DOMAIN line_numbers : k < from \/ k > to}
      ]_vars

-----------------------------------------------------------------------------
(* Claims about renum *)

\* the offsets of the jump-number tokens of a stream, from offset p on
RECURSIVE JumpsFrom(_, _)
JumpsFrom(s, p) ==
    LET t == skip_to(s, p, {T_UINT}, FALSE, FALSE)
    IN  IF t + 3 > Len(s) \/ s[t + 1] # T_UINT THEN {}
        ELSE {t} \cup JumpsFrom(s, t + 3)

Jumps(s) == JumpsFrom(s, 0)
JumpValue(s, t) == FromU16(Slice(s, t + 1, t + 3))

\* the arguments of the renum call just made, with their defaults
RenumNewLine == IF op'.a = None THEN 10 ELSE op'.a
RenumStartLine == IF op'.b = None THEN 0 ELSE op'.b
RenumStep == IF op'.c = None THEN 10 ELSE op'.c

\* the number renum is to give old number k, one of the numbers S
NewNumber(S, k) ==
    RenumNewLine
        + Cardinality({j \in S : j >= RenumStartLine /\ j < k}) * RenumStep

\* C6: renum gives the k-th line from start_line on the number
\* new_line + k*step, leaves the lines below start_line their numbers, and
\* rewrites every jump number that was a renumbered line to its new number
\* (the 0 of ERROR GOTO 0, which the spec excepts, aside), so that every
\* jump designates the line it did; renum(10,0,10) on lines 10,20,...
\* changes nothing
C6_RenumMapsLinesAndJumps ==
    [][ LET L == Lines(bytecode)
            L2 == Lines(bytecode')
            nums == {L[i].num : i \in 1..Len(L)}
        IN  (IsCall("renum") /\ op'.err = "ok") =>
                /\ Len(L2) = Len(L)
                /\ \A i \in 1..Len(L) :
                        L2[i].num = IF L[i].num >= RenumStartLine
                                    THEN NewNumber(nums, L[i].num)
                                    ELSE L[i].num
                /\ \A t \in Jumps(bytecode) :
                        LET v == JumpValue(bytecode, t)
                            v2 == JumpValue(bytecode', t)
                        IN  ~(v = 0 /\ IsErrorGoto(bytecode, t)) =>
                                /\ (v \in nums /\ v >= RenumStartLine)
                                        => v2 = NewNumber(nums, v)
                                /\ (v \in DOMAIN line_numbers /\ v # EndKey)
                                        => /\ v2 \in DOMAIN line_numbers'
                                           /\ line_numbers'[v2] = line_numbers[v]
                /\ (/\ \A i \in 1..Len(L) : L[i].num = 10 * i
                    /\ op'.a = None /\ op'.b = None /\ op'.c = None)
                        => /\ bytecode' = bytecode
                           /\ line_numbers' = line_numbers
                           /\ \A k \in nums : out'.old_to_new[k] = k
      ]_vars

\* the number of 'Undefined line' notices written for jump number v
NoticesFor(notices, v) == Cardinality({i \in 1..Len(notices) : notices[i][1] = v})

\* no line from start_line on is to get a number above 65529
RenumFits ==
    \A k \in DOMAIN line_numbers :
        (k >= RenumStartLine /\ k # EndKey)
            => NewNumber((DOMAIN line_numbers) \ {EndKey}, k) <= 65529

\* C7: in a renum that gives no line a number above 65529, every
\* jump-number token whose value is a line number of the program neither
\* before nor after renum keeps its value and gets one 'Undefined line'
\* notice, and renum does not raise (the 0 of ERROR GOTO 0, which the spec
\* excepts from renumbering, keeps its value without a notice)
C7_DanglingJumpKeptAndNoticed ==
    [][ (IsCall("renum") /\ RenumFits) =>
            /\ op'.err = "ok"
            /\ \A t \in Jumps(bytecode) :
                LET v == JumpValue(bytecode, t)
                IN  (v \notin DOMAIN line_numbers /\ v \notin DOMAIN line_numbers')
                        => /\ JumpValue(bytecode', t) = v
                           /\ NoticesFor(out'.notices, v)
                                = Cardinality({u \in Jumps(bytecode) :
                                        /\ JumpValue(bytecode, u) = v
                                        /\ ~(v = 0 /\ IsErrorGoto(bytecode, u))})
      ]_vars

\* C8: renum fails with IllegalFunctionCall whenever a line of the program
\* (any old number but the end key 65536) is to get a number of 65530 or
\* more, and then no header, jump number or index entry has changed
C8_RenumRejectsNumbersFrom65530 ==
    [][ (IsCall("renum") /\ ~RenumFits) =>
            /\ op'.err = "IFC"
            /\ bytecode' = bytecode
            /\ line_numbers' = line_numbers
      ]_vars

-----------------------------------------------------------------------------
(* Claims about listing and protection *)

\* C9: list_lines on an unprotected program returns one detokenised text
\* for each stored line numbered in from_line..to_line (to_line defaulting
\* to max_list_line), in stream order, and no other entry
C9_ListLinesOnePerStoredLine ==
    [][ LET to == IF op'.b = None THEN max_list_line ELSE op'.b
            L == Lines(bytecode)
            InRange(l) == l.num >= op'.a /\ l.num <= to
            sel == SelectSeq(L, InRange)
        IN  (IsCall("list_lines") /\ ~protected) =>
                /\ op'.err = "ok"
                /\ Len(out') = Len(sel)
                /\ \A i \in 1..Len(sel) :
                        out'[i] = detokenise_line(bytecode, sel[i].pos + 1).text
      ]_vars

-----------------------------------------------------------------------------
(* Claims about loading and saving *)

-----------------------------------------------------------------------------
(* Claims about the tokeniser *)

\* the line number a text line starts with
TextLineNumber(line) ==
    LET d == skip(line, 0, whitespace)
    IN  IntOf(Slice(line, d, ascii_read_to(line, d, (0..255) \ chDigits)))

\* a text with its letters upper-cased and the spaces before ELSE removed
RECURSIVE Canonical(_)
Canonical(t) ==
    IF t = <<>> THEN <<>>
    ELSE IF Head(t) = chSpace /\ UpperSeq(Slice(t, skip(t, 0, {chSpace}),
                                           skip(t, 0, {chSpace}) + 4)) = Keyword(tkELSE)
    THEN Canonical(Tail(t))
    ELSE <<Upper(Head(t))>> \o Canonical(Tail(t))

\* C13: detokenise_line of tokenise_line of a valid text line returns the
\* line's number and its text up to letter case and the spacing of ELSE, and
\* tokenising that text again gives the same bytes
C13_TokeniseDetokeniseRoundTrip ==
    op.name = "detokenise_line" =>
        /\ out.line = TextLineNumber(op.a)
        /\ Canonical(out.text) = Canonical(op.a)
        /\ tokenise_line(out.text) = op.b

-----------------------------------------------------------------------------
(* Claims about loading plain text *)

\* a text line that starts with a line number; one that has no line number
\* but holds something else than whitespace
Numbered(line) == Peek(line, skip(line, 0, whitespace)) \in chDigits
Offending(line) == ~Numbered(line) /\ skip(line, 0, whitespace) < Len(line)

\* the index of the first offending line of a file, 0 when there is none
FirstOffending(lines) ==
    LET bad == {i \in 1..Len(lines) : Offending(lines[i])}
    IN  IF bad = {} THEN 0 ELSE SetMin(bad)

\* the program a sequence of text lines describes, as a function from line
\* numbers to bodies: a numbered line sets its number's body, a line number
\* alone removes the line, other lines count for nothing
RECURSIVE TextProgram(_, _)
TextProgram(lines, prog) ==
    IF lines = <<>> THEN prog
    ELSE
        LET l == Head(lines)
            n == TextLineNumber(l)
            t == tokenise_line(l)
            body == Slice(t, 5, Len(t))
        IN  IF ~Numbered(l) THEN TextProgram(Tail(lines), prog)
            ELSE IF Blank(body)
            THEN TextProgram(Tail(lines), [k \in (DOMAIN prog) \ {n} |-> prog[k]])
            ELSE TextProgram(Tail(lines),
                             [k \in (DOMAIN prog) \cup {n} |->
                                 IF k = n THEN body ELSE prog[k]])

\* the stream bc holds exactly the lines of prog, in ascending order
HoldsProgram(bc, prog) ==
    LET nb == NumBody(bc)
    IN  /\ Len(nb) = Cardinality(DOMAIN prog)
        /\ Ascending(nb)
        /\ \A i \in 1..Len(nb) : nb[i][1] \in DOMAIN prog /\ prog[nb[i][1]] = nb[i][2]

\* C11: loading a plain-text file stores the numbered lines and skips blank
\* lines; it fails with DirectStatementInFile at the first line that has no
\* line number but holds something, and only then; afterwards the program
\* holds exactly the numbered lines before that line, whatever it held before
C11_LoadTextStoresNumberedLines ==
    op.name = "load_text" =>
        LET k == FirstOffending(op.b)
            before == IF k = 0 THEN op.b ELSE SubSeq(op.b, 1, k - 1)
        IN  /\ op.err = (IF k = 0 THEN "ok" ELSE "DIRECT_STATEMENT_IN_FILE")
            /\ HoldsProgram(bytecode, TextProgram(before, <<>>))

-----------------------------------------------------------------------------
(* Claims about the parser *)

\* C14: a jump_return(None) that ends the most recent unreturned jump_gosub
\* call succeeds and restores the position and the run mode of that call,
\* in direct mode as in run mode, and leaves the GOSUB stack as deep as it
\* was before the call
C14_ReturnRestoresCallSite ==
    [][ (IsCall("jump_return") /\ op'.a = None /\ unreturned # <<>>) =>
            LET call == unreturned[Len(unreturned)]
            IN  /\ op'.err = "ok"
                /\ tell(parser') = call[1]
                /\ parser'.run_mode = call[2]
                /\ Len(parser'.gosub_stack) = call[3]
      ]_vars

\* C14 witness: a call made in direct mode, inside the direct line, has
\* been returned from
C14_Witness ==
    /\ op.name = "jump_return" /\ op.a = None /\ op.err = "ok"
    /\ unreturned = <<>>
    /\ parser.gosub_stack = <<>>
    /\ ~parser.run_mode
    /\ parser.direct_pos > 0

\* the parser as parse_statement finds it once the events are serviced
AfterEvents(ps) == handle_basic_events(ps, bytecode, line_numbers).ps

\* the offset of the statement that parse_statement executes when the stream
\* of ps is read from its pointer, past whitespace and a line header or
\* colon; None if the stream ends or the statement is empty
StatementOffset(ps, bc) ==
    LET s == get_codestream(ps, bc)
        p == skip(s, tell(ps), whitespace)
        c == Peek(s, p)
        q == IF c = 0
             THEN (IF parse_line_number(s, p + 1).n = 0 - 1 THEN None
                   ELSE skip(s, p + 5, whitespace))
             ELSE IF c = chColon THEN skip(s, p + 1, whitespace)
             ELSE p
    IN  IF c = 0 - 1 \/ q = None THEN None
        ELSE IF InEndStatement(Peek(s, q)) THEN None
        ELSE q

\* the statement parse_statement executes in this step raises an error
StatementRaises ==
    /\ IsCall("parse_statement")
    /\ op'.a # 0
    /\ handle_basic_events(parser, bytecode, line_numbers).err = "ok"
    /\ StatementOffset(AfterEvents(parser), bytecode) # None

\* C15: when the statement raises an error while on_error is a line L of
\* the program and no error is being handled, parse_statement returns
\* normally: the parser is in run mode at L's offset, ERR and ERL hold the
\* error's number and position, error_resume holds the position at which
\* the statement was started and the run mode it failed in,
\* error_handle_mode is set and events are suspended
C15_ArmedTrapCatchesError ==
    [][ LET q == AfterEvents(parser)
            L == parser.on_error
        IN  (/\ StatementRaises
             /\ L \notin {None, 0, EndKey} /\ L \in DOMAIN line_numbers
             /\ ~parser.error_handle_mode)
            => /\ op'.err = "ok"
               /\ parser'.run_mode
               /\ parser'.program_pos = line_numbers[L]
               /\ parser'.error_num = op'.a
               /\ parser'.error_pos = (IF q.run_mode THEN StatementOffset(q, bytecode)
                                         ELSE 0 - 1)
               /\ parser'.error_resume = <<tell(q), q.run_mode>>
               /\ parser'.error_handle_mode
               /\ parser'.suspend_all
      ]_vars

\* C15 witness: a statement of a direct line has raised an error that the
\* trap at line 900 caught
C15_Witness ==
    /\ op.name = "parse_statement" /\ op.a # 0 /\ op.err = "ok"
    /\ parser.on_error = 900 /\ 900 \in DOMAIN line_numbers
    /\ parser.run_mode /\ parser.program_pos = line_numbers[900]
    /\ parser.error_handle_mode
    /\ parser.error_num = op.a
    /\ parser.error_resume = <<0, FALSE>>

C20_OneEventPerStatement ==
    [][ IsCall("parse_statement") =>
            Len(parser'.gosub_stack) <= Len(parser.gosub_stack) + 1 ]_vars

\* a loop_iterate call at the NEXT of the loop that last_loop describes
IteratesLastLoop ==
    /\ IsCall("loop_iterate")
    /\ last_loop # <<>>
    /\ last_loop[7] = "ok"
    /\ op'.a = last_loop[4]

\* what this call does when call number n is the first to end the loop:
\* a call before n goes on, and call n ends the loop and leaves the FOR
\* stack as deep as it was before loop_init
EndsAtCall(n) ==
    last_loop[6] + 1 <= n =>
        /\ op'.err = "ok"
        /\ out' = (IF last_loop[6] + 1 < n THEN <<1>> ELSE <<0>>)
        /\ last_loop[6] + 1 = n => Len(parser'.for_stack) = last_loop[5]

LastCall(start, stop, step) == ((stop - start) \div step) + 2

C19_ReadEntryReturnsItemsInOrder ==
    (op.name = "read_entry" /\ reads.n >= 1) =>
        IF reads.n <= Len(reads.items)
        THEN op.err = "ok" /\ out = reads.items[reads.n]
        ELSE op.err = "OUT_OF_DATA"

\* C19 witness: after restore(), the items of 10 DATA 1,"A,B",3 were read
\* one by one and a fourth read_entry has failed
C19_Witness ==
    /\ op.name = "read_entry" /\ op.err = "OUT_OF_DATA"
    /\ reads = [items |-> << <<49>>, <<65, chComma, 66>>, <<51>> >>, n |-> 4]

\* C17: after clear() the GOSUB, FOR and WHILE stacks are empty, there is no
\* trap line, no error being handled and no resume record, ERR and ERL are
\* 0 and the DATA cursor is at the start of the program
C17_ClearResetsStacksAndTraps ==
    op.name = "clear" =>
        /\ parser.gosub_stack = <<>>
        /\ parser.for_stack = <<>>
        /\ parser.while_stack = <<>>
        /\ parser.on_error = None
        /\ ~parser.error_handle_mode
        /\ parser.error_resume = <<>>
        /\ parser.error_num = 0
        /\ parser.error_pos = 0
        /\ parser.data_pos = 0

\* the GOSUB stack holds an entry that carries event e
HasEntry(stack, e) == \E i \in 1..Len(stack) : stack[i][3] = e

\* this step has pushed an entry that carries event e
Dispatched(e) ==
    \E i \in (Len(parser.gosub_stack) + 1)..Len(parser'.gosub_stack) :
        parser'.gosub_stack[i][3] = e

\* event e was triggered before the parse_statement of this step
TriggeredBefore(e) == (op'.b \div e) % 2 = 1

\* C21: an event is dispatched only in run mode, only while dispatch is not
\* suspended and only while no GOSUB entry carries it; the jump_return that
\* pops the entry of an event clears its stopped flag, and an event that is
\* triggered with no entry on the stack is dispatched by the next
\* parse_statement in run mode (its handler line being in the program)
C21_HandlerNotReentered ==
    [][ \A e \in Events :
          /\ (IsCall("parse_after_events") /\ Dispatched(e)) =>
                /\ ~HasEntry(parser.gosub_stack, e)
                /\ parser.run_mode
                /\ ~parser.suspend_all
          /\ (/\ IsCall("jump_return")
              /\ parser.gosub_stack # <<>>
              /\ parser.gosub_stack[Len(parser.gosub_stack)][3] = e) =>
                ~parser'.events[e].stopped
          /\ (/\ IsCall("parse_after_events") /\ TriggeredBefore(e)
              /\ parser.run_mode /\ ~parser.suspend_all
              /\ ~HasEntry(parser.gosub_stack, e)
              /\ \A f \in Events : HandlerLine(f) \in DOMAIN line_numbers) =>
                Dispatched(e)
      ]_vars

-----------------------------------------------------------------------------
(* Claims about the order and the offsets of the stored lines *)

\* C22: the index is monotonic: of two indexed numbers the smaller one is at
\* the smaller offset
C22_IndexMonotonic ==
    \A m, n \in DOMAIN line_numbers :
        m < n => line_numbers[m] < line_numbers[n]

\* the next-line-offset field of the header at offset p
NextLineOffset(s, p) == FromU16(Slice(s, p + 1, p + 3))

\* C23: the offset field of every stored line is code_start + 1 + the offset
\* of the line that follows it, or of the end sentinel for the last line,
\* the sentinel is where the index has 65536 and its field is 00 00
C23_OffsetsLinkTheLines ==
    LET L == Lines(bytecode)
    IN  /\ \A i \in 1..Len(L) :
            NextLineOffset(bytecode, L[i].pos) =
                code_start + 1 + (IF i < Len(L) THEN L[i + 1].pos ELSE EndOfLines(bytecode))
        /\ EndOfLines(bytecode) = line_numbers[EndKey]
        /\ Slice(bytecode, EndOfLines(bytecode), EndOfLines(bytecode) + 3) = <<0, 0, 0>>

\* C23 witness: store_line has put a line in front of two stored lines,
\* whose offset fields had to be shifted
C23_Witness ==
    /\ op.name = "store_line" /\ op.err = "ok"
    /\ Len(Lines(bytecode)) = 3
    /\ op.a = Lines(bytecode)[1].num
    /\ last_stored = op.a

\* the jump token at offset t follows the keywords ERROR GOTO, with nothing
\* but whitespace between the three
FollowsErrorGoto(s, t) ==
    \E e \in 0..(t - 2) : \E g \in (e + 1)..(t - 1) :
        /\ s[e + 1] = tkERROR /\ s[g + 1] = tkGOTO
        /\ \A i \in ((e + 1)..(t - 1)) \ {g} : s[i + 1] \in whitespace

\* C24: a renum that renumbers line 0 leaves the jump number 0 after
\* ERROR GOTO as it is and rewrites every other jump number 0 to the new
\* number of line 0
C24_ErrorGoto0NotRenumbered ==
    [][ (/\ IsCall("renum") /\ op'.err = "ok"
         /\ 0 \in DOMAIN line_numbers /\ RenumStartLine = 0) =>
            \A t \in Jumps(bytecode) :
                JumpValue(bytecode, t) = 0 =>
                    JumpValue(bytecode', t) =
                        IF FollowsErrorGoto(bytecode, t) THEN 0
                        ELSE NewNumber((DOMAIN line_numbers) \ {EndKey}, 0)
      ]_vars

\* C24 witness: renum has made line 0 line 10; the program holds a 0 after
\* ERROR GOTO and a jump to 10 that does not follow ERROR GOTO
C24_Witness ==
    /\ op.name = "renum" /\ op.err = "ok"
    /\ 0 \notin DOMAIN line_numbers /\ 10 \in DOMAIN line_numbers
    /\ \E t \in Jumps(bytecode) :
            JumpValue(bytecode, t) = 0 /\ FollowsErrorGoto(bytecode, t)
    /\ \E t \in Jumps(bytecode) :
            JumpValue(bytecode, t) = 10 /\ ~FollowsErrorGoto(bytecode, t)

\* C25: get_line_number(pos) returns the indexed number with the greatest
\* start offset that is at most pos, and -1 if and only if no indexed line
\* starts at or before pos
C25_GetLineNumberFindsLineOfOffset ==
    op.name = "get_line_number" =>
        LET at == {n \in DOMAIN line_numbers : line_numbers[n] <= op.a}
        IN  IF at = {} THEN out = <<0 - 1>>
            ELSE \E n \in at :
                    /\ out = <<n>>
                    /\ \A m \in at : line_numbers[m] <= line_numbers[n]

\* every indexed number but the end key designates an offset whose header
\* encodes that number, and 00 00 00 stands at the offset of the end key
IndexMatchesStream ==
    /\ \A n \in DOMAIN line_numbers \ {EndKey} :
           parse_line_number(bytecode, line_numbers[n] + 1).n = n
    /\ Slice(bytecode, line_numbers[EndKey], line_numbers[EndKey] + 3) = <<0, 0, 0>>

\* C26: set_memory without allow_code_poke leaves the bytecode, the index
\* and the parser's positions as they were; with allow_code_poke, after any
\* byte was written at any address, the index is the one rebuilt from the
\* stream: every indexed number but 65536 designates an offset whose header
\* encodes that number, and 00 00 00 stands at the offset indexed by 65536
C26_SetMemoryRebuildsIndex ==
    [][IsCall("set_memory") =>
          IF op'.c = 0
          THEN UNCHANGED <<bytecode, line_numbers, parser>>
          ELSE IndexMatchesStream']_vars

\* a poke changed the number of the stored line 0 to 10, and the index
\* follows it
C26_Witness ==
    /\ op.name = "set_memory"
    /\ op.c = 1
    /\ op.a = code_start + 3
    /\ op.b = chLF
    /\ line_numbers = (chLF :> 0 @@ EndKey :> 10)

-----------------------------------------------------------------------------
(* Claims about RETURN, error traps and FOR loops *)

\* C27: jump_return removes the top entry of the GOSUB stack and no other;
\* with a line number of the program it puts the cursor on that line, with
\* none on the position and in the run mode saved in the entry; on an empty
\* stack it raises RETURN_WITHOUT_GOSUB and the parser, with its cursor, run
\* mode, stack and events, is as before
C27_JumpReturnPopsTop ==
    [][IsCall("jump_return") =>
          IF parser.gosub_stack = <<>>
          THEN op'.err = "RETURN_WITHOUT_GOSUB" /\ parser' = parser
          ELSE LET top == parser.gosub_stack[Len(parser.gosub_stack)]
               IN  /\ parser'.gosub_stack =
                          SubSeq(parser.gosub_stack, 1, Len(parser.gosub_stack) - 1)
                   /\ op'.a \in DOMAIN line_numbers =>
                          /\ op'.err = "ok"
                          /\ parser'.run_mode
                          /\ parser'.program_pos = line_numbers[op'.a]
                   /\ op'.a = None =>
                          /\ op'.err = "ok"
                          /\ parser'.run_mode = top[2]
                          /\ tell(parser') = top[1]]_vars

\* RETURN 20 from an event handler entered at another position
C27_Witness ==
    /\ op.name = "jump_return"
    /\ op.a = 20
    /\ op.err = "ok"
    /\ parser.gosub_stack = <<>>
    /\ parser.program_pos = line_numbers[20]
    /\ \E e \in Events : ~parser.events[e].stopped /\ parser.events[e].triggered = FALSE
                         /\ parser.events[e].enabled

\* no trap can be taken: an error is being handled, or no trap is armed
Untrappable(ps) == ps.error_handle_mode \/ ps.on_error \in {None, 0}

\* C28: when a statement raises an error while another error is being
\* handled or while on_error is None or 0, the same error propagates from
\* parse_statement, error_handle_mode is cleared and run mode is left; and
\* no parse_statement call that starts in such a state enters the trap: it
\* records no new resume position and does not end, without an error, with
\* error_handle_mode set where it was not
C28_NoTrapWhileHandlingOrUnarmed ==
    [][ /\ (StatementRaises /\ Untrappable(parser)) =>
               /\ op'.err # "ok"
               /\ ErrNum(op'.err) = op'.a
               /\ ~parser'.error_handle_mode
               /\ ~parser'.run_mode
        /\ (IsCall("parse_statement") /\ Untrappable(parser)) =>
               /\ parser'.error_resume = parser.error_resume
               /\ op'.err # "ok" => ~parser'.error_handle_mode /\ ~parser'.run_mode
               /\ op'.err = "ok" => parser'.error_handle_mode = parser.error_handle_mode
      ]_vars

\* a second error, raised by a statement of the trap line while the first
\* one was being handled, has propagated
C28_Witness ==
    /\ op.name = "parse_statement"
    /\ op.err = "IFC"
    /\ parser.on_error = 900
    /\ parser.error_resume # <<>>
    /\ parser.error_pos = line_numbers[900] + 5
    /\ ~parser.error_handle_mode
    /\ ~parser.run_mode

\* the loop variable of the FOR statement whose NEXT is at pos
LoopVarAt(pos) == IF pos = NextPos(1) THEN 1 ELSE 2

\* start lies beyond stop in the direction of the step
StartBeyondStop(start, stop, step) ==
    \/ step > 0 /\ start > stop
    \/ step < 0 /\ start < stop

\* C29: loop_init leaves start - step in the loop variable and the cursor at
\* the NEXT offset, and the first loop_iterate at that offset leaves start in
\* the variable; if start is beyond stop in the direction of the step, that
\* call reports the end of the loop, the cursor does not go to the loop body
\* and the loop's record is gone
C29_FirstIterationStartsAtStart ==
    [][ /\ IsCall("loop_init") =>
               /\ op'.err = "ok"
               /\ parser'.scalars[op'.a] = last_loop'[1] - last_loop'[3]
               /\ tell(parser') = NextPos(op'.a)
        /\ (/\ IsCall("loop_iterate") /\ last_loop # <<>>
            /\ op'.a = last_loop[4] /\ last_loop[6] = 0) =>
               /\ op'.err = "ok"
               /\ parser'.scalars[LoopVarAt(last_loop[4])] = last_loop[1]
               /\ StartBeyondStop(last_loop[1], last_loop[2], last_loop[3]) =>
                      /\ out' = <<0>>
                      /\ tell(parser') = tell(parser)
                      /\ Len(parser'.for_stack) = last_loop[5]
      ]_vars

\* the places in the FOR stack of the records whose NEXT is at pos
RecordsAt(stack, pos) == {i \in 1..Len(stack) : stack[i][2] = pos}

\* C30: loop_iterate(pos) takes the topmost FOR record whose NEXT is at pos.
\* The records above it are dropped and those below it stay as they are;
\* the record itself stays when the call reports that the loop goes on (or
\* fails with Overflow) and is dropped when it reports the end of the loop.
\* With no such record the call fails with NEXT_WITHOUT_FOR, and the FOR
\* stack and the variables are as before
C30_LoopIterateSelectsTopmostMatch ==
    [][ IsCall("loop_iterate") =>
            LET at == RecordsAt(parser.for_stack, op'.a)
            IN  IF at = {}
                THEN /\ op'.err = "NEXT_WITHOUT_FOR"
                     /\ parser'.for_stack = parser.for_stack
                     /\ parser'.scalars = parser.scalars
                ELSE /\ op'.err \in {"ok", "Overflow"}
                     /\ parser'.for_stack =
                            SubSeq(parser.for_stack, 1,
                                   IF op'.err = "ok" /\ out' = <<0>>
                                   THEN SetMax(at) - 1 ELSE SetMax(at))
      ]_vars

\* NEXT of the outer loop while the inner loop was open: the inner loop's
\* record is gone, the outer loop goes on
C30_Witness ==
    /\ op.name = "loop_iterate" /\ op.a = NextPos(1) /\ op.err = "ok"
    /\ out = <<1>>
    /\ nops = 3
    /\ parser.scalars = <<1, 1>>
    /\ parser.for_stack = << <<ForPos(1), NextPos(1), 1, 3, 2, 1>> >>

-----------------------------------------------------------------------------
(* Claims about the end of FOR loops *)

\* the value is past stop in the direction of the step
PastStop(value, stop, step) ==
    \/ step > 0 /\ value > stop
    \/ step < 0 /\ value < stop

\* what a loop_iterate call does with the record at place i of the FOR
\* stack when the new value of its variable is stored: it ends the loop
\* exactly when the new value is past stop, and otherwise goes back to the
\* loop body
IteratesRecord(i) ==
    LET e == parser.for_stack[i]
        value == parser.scalars[e[3]] + e[5]
    IN  /\ op'.err = "ok"
        /\ parser'.scalars = [parser.scalars EXCEPT ![e[3]] = value]
        /\ IF PastStop(value, e[4], e[5])
           THEN /\ out' = <<0>>
                /\ parser'.for_stack = SubSeq(parser.for_stack, 1, i - 1)
                /\ tell(parser') = tell(parser)
           ELSE /\ out' = <<1>>
                /\ parser'.for_stack = SubSeq(parser.for_stack, 1, i)
                /\ tell(parser') = e[1]

\* with step 0 the loop goes on, the variable keeps its value, the record
\* stays and the cursor goes back to the loop body
IteratesZeroStep(i) ==
    /\ op'.err = "ok"
    /\ out' = <<1>>
    /\ parser'.scalars = parser.scalars
    /\ parser'.for_stack = SubSeq(parser.for_stack, 1, i)
    /\ tell(parser') = parser.for_stack[i][1]

-----------------------------------------------------------------------------
(* Claims about expressions *)

\* a reference evaluator for operands joined by unary minus and binary
\* operators: a minus sign belongs to the operand after it, an operator of
\* higher precedence is applied before one of lower precedence, operators of
\* equal precedence from left to right. p is the place of the next token;
\* ok is false once a division by zero was met
RECURSIVE RefOperand(_, _)
RefOperand(s, p) ==
    IF s[p] = tkO_MINUS
    THEN LET r == RefOperand(s, p + 1) IN [r EXCEPT !.val = 0 - r.val]
    ELSE [val |-> s[p] - tkC_0, p |-> p + 1, ok |-> TRUE]

RefApply(o, left, right, p) ==
    IF ~left.ok \/ ~right.ok \/ (o = tkO_INTDIV /\ right.val = 0)
    THEN [val |-> 0, p |-> p, ok |-> FALSE]
    ELSE [val |-> IF o = tkO_INTDIV THEN intdiv(left.val, right.val)
                  ELSE left.val - right.val,
          p |-> p, ok |-> TRUE]

RECURSIVE RefClimb(_, _, _)
RefClimb(s, left, minprec) ==
    IF left.p > Len(s) \/ precedence(s[left.p]) < minprec THEN left
    ELSE LET o == s[left.p]
             right == RefClimb(s, RefOperand(s, left.p + 1), precedence(o) + 1)
         IN  RefClimb(s, RefApply(o, left, right, right.p), minprec)

RefValue(s) == RefClimb(s, RefOperand(s, 1), 0)

WellFormed(e) == \E n \in 1..MaxOperands : e \in ExprsOf(n)

\* C32: for an expression of operands joined by unary and binary operators
\* that evaluates without an error, parse_expression returns the value of
\* the reference evaluator, with the operator stack empty and one value in
\* units
C32_ExpressionValueIsReference ==
    (/\ op.name = "parse_expression" /\ op.a = 0
     /\ WellFormed(op.b) /\ RefValue(op.b).ok)
    => /\ op.err = "ok"
       /\ out = <<RefValue(op.b).val, 0, 1, 0>>

\* an error trap is armed
Armed == parser.on_error # None /\ parser.on_error # 0

\* the expression has an operator, so that the first operator applied
\* raises what the call says it raises
HasOperator(e) == \E i \in 1..Len(e) : e[i] \in operators

\* operands joined by binary minus signs only: they are applied from left to
\* right, the first to the first two operands
JoinedByMinus(e) ==
    /\ WellFormed(e)
    /\ \A i \in 1..Len(e) : (e[i] \in operators) = (i % 2 = 0)
    /\ \A i \in 1..Len(e) : e[i] \in operators => e[i] = tkO_MINUS

\* C33: when the first operator applied signals overflow or division by
\* zero: with a trap armed parse_expression raises Overflow or
\* DIVISION_BY_ZERO; with none armed it raises nothing, a message is written
\* for the signal, the greatest value stands for the operator's result and
\* the rest of the expression is evaluated with it. When it signals a domain
\* error parse_expression raises IFC, armed or not
C33_MathErrorTrappedOrReplaced ==
    (op.name = "parse_expression" /\ WellFormed(op.b) /\ HasOperator(op.b)) =>
        /\ op.a = ExcNum("ValueError") => op.err = "IFC"
        /\ op.a \in {ExcNum("OverflowError"), ExcNum("ZeroDivisionError")} =>
               IF Armed
               THEN /\ op.err = (IF op.a = ExcNum("OverflowError") THEN "Overflow"
                                 ELSE "DIVISION_BY_ZERO")
                    /\ out[4] = 0
               ELSE /\ op.err = "ok"
                    /\ out[2] = 0 /\ out[3] = 1
                    /\ out[4] >= 1
                    /\ (JoinedByMinus(op.b) /\ Len(op.b) = 3) =>
                           out = <<SingleMax, 0, 1, 1>>
                    /\ (JoinedByMinus(op.b) /\ Len(op.b) = 5) =>
                           out = <<SingleMax - (op.b[5] - tkC_0), 0, 1, 1>>

\* with no trap armed, the first minus of 2 - 3 - 3 has signalled overflow:
\* the value is the greatest value less 3, and one message was written
C33_Witness ==
    /\ op.name = "parse_expression" /\ op.a = ExcNum("OverflowError")
    /\ op.b = <<tkC_0 + 2, tkO_MINUS, tkC_0 + 3, tkO_MINUS, tkC_0 + 3>>
    /\ ~Armed
    /\ op.err = "ok"
    /\ out = <<SingleMax - 3, 0, 1, 1>>

\* with a trap armed, the same signal is raised as an error
C33_WitnessArmed ==
    /\ op.name = "parse_expression" /\ op.a = ExcNum("ZeroDivisionError")
    /\ Armed
    /\ op.err = "DIVISION_BY_ZERO"

-----------------------------------------------------------------------------
(* Claims about numbers in text *)

\* the digits of a text, in order
DigitsOf(text) == SelectSeq(text, IsDigit)

\* C34: when the digits read by _tokenise_uint make a number of 65530 or
\* more, the number encoded is that of the first four digits, and the digits
\* after them, no more and no fewer, are in the input that is read next;
\* the number encoded is never above 65529
C34_BigNumberKeepsEveryDigit ==
    op.name = "tokenise_uint" =>
        LET run == Slice(op.a, 0, DigitRunEnd(op.a, 0, 0))
            digits == DigitsOf(run)
        IN  /\ out[1] # <<>> => FromU16(out[1]) <= 65529
            /\ (digits # <<>> /\ IntOf(digits) >= 65530) =>
                   /\ out[1] = U16(IntOf(SubSeq(digits, 1, 4)))
                   /\ DigitsOf(Slice(op.a, out[2], Len(op.a)))
                          = SubSeq(digits, 5, Len(digits))

-----------------------------------------------------------------------------
(* Claims about jump numbers in text *)

\* the keywords of the modelled lines that are among the fifteen line-number
\* keywords
QualifyingKeywords == {tkGOTO, tkTHEN, tkELSE, tkGOSUB}

\* the bytes of a number: a jump number or an ordinary numeric literal
EncodedNumber(n, as_jump) ==
    IF as_jump THEN <<T_UINT>> \o U16(IntOf(n)) ELSE tokenise_number(n, 0).outs

\* the bytes of a separator
SepBytes(t) ==
    IF t = chComma \/ t \in tkOperator THEN <<t>> ELSE <<chSpace, t, chSpace>>

\* the tokenised line when the first number is a jump number exactly after a
\* qualifying keyword and the second number is one exactly when after_sep
ExpectedJumpLine(k, n1, t, n2, after_sep) ==
    <<0, 192, 222>> \o U16(10) \o <<k, chSpace>>
        \o EncodedNumber(n1, k \in QualifyingKeywords)
        \o SepBytes(t) \o EncodedNumber(n2, after_sep)

-----------------------------------------------------------------------------
(* Claims about the end of the program *)

\* the position at which parse_statement looks for a statement
StatementPos(ps, bc) == skip(get_codestream(ps, bc), tell(ps), whitespace)
\* the stream has ended there
AtEndOfStream(ps, bc) == Peek(get_codestream(ps, bc), StatementPos(ps, bc)) = 0 - 1
\* the end-of-program header is there
AtEndHeader(ps, bc) ==
    /\ Peek(get_codestream(ps, bc), StatementPos(ps, bc)) = 0
    /\ parse_line_number(get_codestream(ps, bc), StatementPos(ps, bc) + 1).n = 0 - 1

\* C36: at the end-of-program header with error_resume set, parse_statement
\* raises NoResume, trap armed or not, and deactivates run mode; at the header
\* without error_resume, or at the end of the stream, it deactivates run mode
\* and returns False; everywhere else a call that returns returns True
C36_EndOfProgram ==
    [][IsCall("parse_statement") =>
          IF AtEndHeader(parser, bytecode) /\ parser.error_resume # <<>>
          THEN op'.err = "NO_RESUME" /\ ~parser'.run_mode
          ELSE IF AtEndHeader(parser, bytecode) \/ AtEndOfStream(parser, bytecode)
          THEN op'.err = "ok" /\ out' = <<0>> /\ ~parser'.run_mode
          ELSE op'.err = "ok" => out' = <<1>>]_vars

\* the program ran into the end of the program inside the handler of ON
\* ERROR GOTO 900, which is still armed: NoResume was raised
C36_Witness ==
    /\ op.name = "parse_statement"
    /\ op.err = "NO_RESUME"
    /\ parser.on_error = 900
    /\ parser.error_resume # <<>>
    /\ ~parser.run_mode

-----------------------------------------------------------------------------
(* Claims about the cursors of READ *)

\* C37: read_entry leaves the position of the program stream where it was
\* before the call, when it returns an item and when it fails with OutOfData
\* or a syntax error; a failed call leaves the DATA cursor where it was too
C37_ReadEntryKeepsCursor ==
    [][IsCall("read_entry") =>
          /\ parser'.program_pos = parser.program_pos
          /\ op'.err # "ok" => parser'.data_pos = parser.data_pos]_vars

-----------------------------------------------------------------------------
(* Claims about GOSUB to a line that does not exist *)

\* C38: a jump_gosub whose target line does not exist fails with
\* UndefinedLineNumber and leaves the GOSUB stack, the cursor and run_mode as
\* they were before the call
C38_FailedGosubLeavesNoEntry ==
    [][(IsCall("jump_gosub") /\ op'.a \notin DOMAIN line_numbers) =>
          /\ op'.err = "UNDEFINED_LINE_NUMBER"
          /\ parser'.gosub_stack = parser.gosub_stack
          /\ tell(parser') = tell(parser)
          /\ parser'.run_mode = parser.run_mode]_vars

-----------------------------------------------------------------------------
(* Claims about the program pointer *)

\* C39: set_memory with code-poke enabled leaves the position of the
\* bytecode stream, which is the parser's cursor in run mode, where it was
\* before the call, for every address and value
C39_SetMemoryRestoresPointer ==
    [][(IsCall("set_memory") /\ op'.c = 1) =>
          parser'.program_pos = parser.program_pos]_vars

-----------------------------------------------------------------------------
(* Claims about SHELL output *)

\* the number of times byte b occurs in seq
Occurrences(seq, b) == Cardinality({i \in DOMAIN seq : seq[i] = b})

\* C40: when launch returns, each byte a reader thread appended to
\* shell_output has been written to the screen exactly once
C40_EveryByteWrittenOnce ==
    shell.mpc = "done" =>
        \A i \in DOMAIN shell.appended : Occurrences(shell.screen, shell.appended[i]) = 1

=========================================================================
